---- MODULE Spec2Model ----
(***************************************************************************)
(* A model of the traversal and accounting core of context-craft:          *)
(*   - createLimit      (src/src/utils.ts 5-32, and its copy in the token  *)
(*                       counter) : the bounded-concurrency limiter;       *)
(*   - collectFiles     (src/src/utils.ts 44-85) : the recursive,          *)
(*                       ignore-aware, capped, cancellable walk;           *)
(*   - isBinary         (src/src/utils.ts 119-169) and countTokens (the    *)
(*                       token counter) with their two bounded caches.     *)
(*                                                                         *)
(* JavaScript runs one turn of the event loop at a time: a turn starts     *)
(* when a filesystem operation completes (or a caller acts) and runs every *)
(* continuation up to the next await.  Each action below is one such turn. *)
(*                                                                         *)
(* The module holds several specifications over disjoint groups of         *)
(* variables; each one keeps the other groups at their idle value:         *)
(*   Spec        the collectFiles traversal through fsLimit (two           *)
(*               selections of one root, as resolveSelectedFiles makes),   *)
(*   SpecTwice   the same call made twice, SpecRoots two roots,            *)
(*   SpecLimit   one limiter created by createLimit, on its own,           *)
(*   SpecTokens  countTokens on files nobody writes,                       *)
(*   SpecCache   countTokens / isBinary against a changing file,           *)
(*   SpecEvict   a bounded cache, SpecIgnore getIgnoreParser,              *)
(*   SpecRender  generateFileMap and generateFileMapMultiRoot,             *)
(*   SpecRefresh refreshAndUpdate and its superseded invocations.          *)
(***************************************************************************)
EXTENDS Integers, Sequences, FiniteSets, TLC

VARIABLES
    (* ---- createLimit on its own (SpecLimit) ---- *)
    concurrency,    \* the argument of createLimit
    running,        \* utils.ts:7   let running = 0
    queue,          \* utils.ts:6   const queue = []   (task ids, in push order)
    taskState,      \* per task: "new" | "queued" | "running" | "resolved" | "rejected"
    fnOutcome,      \* per task: how its fn() settled: "none" | "ok" | "err"
    wasQueued,      \* history: the tasks that were pushed on the queue
    (* ---- collectFiles through fsLimit (Spec) ---- *)
    fsKind,         \* the filesystem: node -> "dir" | "file"
    ignoreParser,   \* the matcher: the set of candidates it ignores
    maxFiles,       \* the cap
    fsConcurrency,  \* the concurrency of fsLimit
    callUri,        \* per top-level call: the uri it was given
    callState,      \* per top-level call: "idle" | "active" | "resolved" | "rejected"
    stack,          \* per top-level call: the frames of its recursion, outermost first
    result,         \* per top-level call: the array it resolved with
    counter,        \* counter.count, shared by all the calls
    aborted,        \* signal.aborted
    fsRunning,      \* fsLimit: running
    fsQueue,        \* fsLimit: queue (call ids: a call has one pending operation at most)
    issued,         \* history, per call: the filesystem operations it issued
    capWarnings,    \* history: how often the cap diagnostic was written
    gatheredAtAbort,\* history, per call: the paths its frames held when the token was signalled
    listOrder,      \* the filesystem: the order in which readDirectory lists names
    sharing,        \* do the calls share counter, or has each a counter of its own
    fresh,          \* per call: counter.count of the counter given to it alone
    entered,        \* history, per call: how many invocations of collectFiles it made
    (* ---- countTokens and isBinary (SpecTokens) ---- *)
    disk,           \* the files: path -> [mtime, content]
    tokenCache,     \* the Map tokenCache, its entries in insertion order
    isBinaryCache,  \* the Map isBinaryCache, its entries in insertion order
    tokAborted,     \* signal.aborted of the countTokens call
    tokConcurrency, \* the concurrency of the token counter's limit
    tokRunning,     \* limit: running
    tokQueue,       \* limit: queue (indices into the paths of the call)
    countPaths,     \* countTokens: the paths it was given
    task,           \* per path of the call: the state of its task
    countState,     \* the promise of countTokens: "idle" | "running" | "done" | "rejected"
    total,          \* what countTokens resolved with
    rounds,         \* how many countTokens calls were made
    bin,            \* an isBinary call made from outside countTokens (the copy command)
    writes,         \* how many times a file was written
    failedPaths,    \* history: the paths on which a stat or a read failed
    (* ---- a bounded cache on its own (SpecEvict) ---- *)
    evCache,        \* the Map, its entries in insertion order
    evCapacity,     \* its capacity (MAX_CACHE_SIZE, MAX_BINARY_CACHE_SIZE)
    evClock,        \* how many set() calls were made
    evInsertedAt,   \* history, per key: the set() call that last inserted it, 0 if none
    evEvicted,      \* history: the keys the last set() call removed
    evTouched,      \* history: the keys read or overwritten since they were inserted
    (* ---- getIgnoreParser (SpecIgnore) ---- *)
    gitIgnore,      \* the file .gitignore of the root: [exists, mtime, content]
    ignoreParserCache, \* the Map ignoreParserCache: root -> [parser, mtime]
    parsers,        \* the matchers created so far: instance -> its rules, in order
    ignCall,        \* per call in flight or returned: where it is, what it saw
    ignClock,       \* history: a clock of the starts and returns of the calls
    ignLog,         \* history: the calls that returned, in the order of their return
    ignWrites,      \* how many times .gitignore was written or deleted
    (* ---- the file map (SpecRender) ---- *)
    rdFiles,        \* generateFileMap: files (the multi-root map is made of it)
    rdSelected,     \* selectedFiles: [given, set]
    rdMap,          \* generateFileMapMultiRoot: filesByWorkspace, its entries in order
    rdCall,         \* which function was called: "none" | "single" | "multi"
    rdOut,          \* the string it returned, as the sequence of its lines
    (* ---- refreshAndUpdate (SpecRefresh) ---- *)
    hasWorkspace,   \* is a workspace folder open
    refreshSeq,     \* SettingsTreeProvider.ts:182   let refreshSeq = 0
    currentAbort,   \* :181   let currentAbort: the latest controller, 0 when undefined
    controllers,    \* the AbortControllers created so far: [aborted]
    refresh,        \* the invocations of refreshAndUpdate, in the order of their start
    statusBar,      \* what updateStatusBar wrote last: [isCalculating, by]
    statusLog,      \* history: the writes of the status bar, with refreshSeq at the write
    work,           \* history: the calls that were handed a signal
    (* ---- the contents a file had (SpecHistory) ---- *)
    contentAt,      \* history, per path: the content the file had at each mtime
    (* ---- the file map of the copy and of the estimate (SpecFileMap) ---- *)
    fmFolders,      \* vscode.workspace.workspaceFolders, by the name of their root
    fmResolved,     \* what resolveSelectedFiles returned
    fmWalk,         \* what the collectFiles calls of the folders return, flattened
    fmIncludeAll,   \* isFileMapAllFilesEnabled()
    fmCopy,         \* the copy command: [called, built, fileMap, files]
    fmSection,      \* generateFileMapSection: [called, fileMapSection, fileMapFiles]
    (* ---- the settings and the selection (SpecSettings) ---- *)
    fileMapMode,    \* SettingsTreeProvider.fileMapMode
    showIgnoredFiles, \* SettingsTreeProvider.showIgnoredFiles
    checkedPaths,   \* FileTreeProvider.checkedPaths: a Set, its members in insertion order
    treeShowsIgnored, \* does the tree on screen list the ignored entries
    toggle,         \* the invocation of toggleShowIgnoredFiles: where it awaits
    pick,           \* the invocation of showFileMapModeQuickPick: where it awaits
    debounceTimer,  \* debounce: is a call of refreshAndUpdate pending
    unaccounted,    \* history: a setting changed and refreshAndUpdate was not called since
    toggleLog,      \* history: what the latest toggle did, in order
    userActions,    \* how many commands and checkbox changes the user made
    (* ---- the tree provider and the file watcher (SpecTree) ---- *)
    treeFiles,      \* the files that exist under the workspace folder
    kindCache,      \* FileTreeProvider.kindCache
    childrenCache,  \* FileTreeProvider.childrenCache
    showIgnored,    \* what showIgnoredFilesGetter returns
    treeCall,       \* the invocations of getChildren: where each awaits
    watcherEvents,  \* the events the watcher has not delivered yet
    refreshTimer,   \* debounce: is a call of refreshAndUpdate pending
    eventsIgnored,  \* history: did the watcher deliver an event its handler ignored
    diskOps         \* how many times the files were changed

limVars == <<concurrency, running, queue, taskState, fnOutcome, wasQueued>>
colVars == <<fsKind, ignoreParser, maxFiles, fsConcurrency, callUri, callState, stack,
             result, counter, aborted, fsRunning, fsQueue, issued, capWarnings,
             gatheredAtAbort, listOrder, sharing, fresh, entered>>
tokVars == <<disk, tokenCache, isBinaryCache, tokAborted, tokConcurrency, tokRunning,
             tokQueue, countPaths, task, countState, total, rounds, bin, writes, failedPaths>>
evVars == <<evCache, evCapacity, evClock, evInsertedAt, evEvicted, evTouched>>
ignVars == <<gitIgnore, ignoreParserCache, parsers, ignCall, ignClock, ignLog, ignWrites>>
rdVars == <<rdFiles, rdSelected, rdMap, rdCall, rdOut>>
rfVars == <<hasWorkspace, refreshSeq, currentAbort, controllers, refresh, statusBar,
            statusLog, work>>
histVars == <<contentAt>>
fmVars == <<fmFolders, fmResolved, fmWalk, fmIncludeAll, fmCopy, fmSection>>
stVars == <<fileMapMode, showIgnoredFiles, checkedPaths, treeShowsIgnored, toggle, pick,
            debounceTimer, unaccounted, toggleLog, userActions>>
ftVars == <<treeFiles, kindCache, childrenCache, showIgnored, treeCall, watcherEvents,
            refreshTimer, eventsIgnored, diskOps>>
vars == <<limVars, colVars, tokVars, evVars, ignVars, rdVars, rfVars, histVars, fmVars, stVars, ftVars>>

\* What a step of one part of the program leaves alone: the other parts.
notLim == <<colVars, tokVars, evVars, ignVars, rdVars, rfVars, histVars, fmVars, stVars, ftVars>>
notCol == <<limVars, tokVars, evVars, ignVars, rdVars, rfVars, histVars, fmVars, stVars, ftVars>>
notTok == <<limVars, colVars, evVars, ignVars, rdVars, rfVars, histVars, fmVars, stVars, ftVars>>
notEv == <<limVars, colVars, tokVars, ignVars, rdVars, rfVars, histVars, fmVars, stVars, ftVars>>
notIgn == <<limVars, colVars, tokVars, evVars, rdVars, rfVars, histVars, fmVars, stVars, ftVars>>
notRd == <<limVars, colVars, tokVars, evVars, ignVars, rfVars, histVars, fmVars, stVars, ftVars>>
notRf == <<limVars, colVars, tokVars, evVars, ignVars, rdVars, histVars, fmVars, stVars, ftVars>>
notHist == <<limVars, colVars, tokVars, evVars, ignVars, rdVars, rfVars, fmVars, stVars, ftVars>>
notFm == <<limVars, colVars, tokVars, evVars, ignVars, rdVars, rfVars, histVars, stVars, ftVars>>
notSt == <<limVars, colVars, tokVars, evVars, ignVars, rdVars, rfVars, histVars, fmVars, ftVars>>
notFt == <<limVars, colVars, tokVars, evVars, ignVars, rdVars, rfVars, histVars, fmVars, stVars>>

(***************************************************************************)
(* Bounds of the model.  The limiters' concurrency (24 and 8 in the code)  *)
(* and the cap are drawn from 1..bound in the initial states.  The sizes   *)
(* of the code (5000 cache entries, 512 scanned bytes, the preview         *)
(* ceiling) are scaled down to the few files and bytes of the model.       *)
(***************************************************************************)
MaxConcurrency == 2
MaxTasks == 4
MaxFsConcurrency == 2
MaxCap == 3
MaxTokConcurrency == 2
MaxCacheSize == 1
MaxBinaryCacheSize == 1
ScanBytes == 1
MaxPreviewBytes == 2
MaxRounds == 2
MaxWrites == 1
MaxEvictKeys == 3
MaxEvictCapacity == 2
MaxEvictOps == 4
MaxParserCalls == 3
MaxIgnoreWrites == 1

Pop(s) == SubSeq(s, 1, Len(s) - 1)
Top(s) == s[Len(s)]

Range(s) == {s[i] : i \in 1..Len(s)}

(***************************************************************************)
(* createLimit: utils.ts 5-32.  A limiter is the pair running, queue.      *)
(***************************************************************************)
\* A faulty variant: the slot test off by one.
LimitHasFreeSlotOffByOne(r, n) == r <= n

\* utils.ts:25   if (running < concurrency) run(); else queue.push(run)
LimitHasFreeSlot(r, n) == r < n

\* A faulty variant: the slot is given back only when fn() succeeded.
RunningAfterSettleOnSuccessOnly(r, outcome) == IF outcome = "ok" THEN r - 1 ELSE r

\* utils.ts:17-18   finally { running--; ... }  whatever the outcome
RunningAfterSettle(r, outcome) == r - 1

\* utils.ts:19   if (queue.length > 0 && running < concurrency)
LimitStartsNext(q, r, n) == Len(q) > 0 /\ r < n

\* utils.ts:8-31  limit(fn): run at once (running++) or push on the queue.
\* started: the ids whose fn() was called in this step.
LimitSubmit(r, q, n, id) ==
    IF LimitHasFreeSlot(r, n)
    THEN [running |-> r + 1, queue |-> q, started |-> <<id>>]
    ELSE [running |-> r, queue |-> Append(q, id), started |-> <<>>]

\* A faulty variant: the task pushed last is started first.
LimitSettleLifo(r, q, n, outcome) ==
    LET r1 == RunningAfterSettle(r, outcome)
    IN  IF LimitStartsNext(q, r1, n)
        THEN [running |-> r1 + 1, queue |-> SubSeq(q, 1, Len(q) - 1),
              started |-> <<q[Len(q)]>>]
        ELSE [running |-> r1, queue |-> q, started |-> <<>>]

\* utils.ts:17-23  the finally block of run: release, then start the head of the queue.
LimitSettle(r, q, n, outcome) ==
    LET r1 == RunningAfterSettle(r, outcome)
    IN  IF LimitStartsNext(q, r1, n)
        THEN [running |-> r1 + 1, queue |-> Tail(q), started |-> <<Head(q)>>]
        ELSE [running |-> r1, queue |-> q, started |-> <<>>]

\* utils.ts:13-16  resolve(result) on success, reject(error) on failure
SettledAs(outcome) == IF outcome = "ok" THEN "resolved" ELSE "rejected"

Tasks == 1..MaxTasks

LimIdle ==
    /\ concurrency = 0
    /\ running = 0
    /\ queue = <<>>
    /\ taskState = <<>>
    /\ fnOutcome = <<>>
    /\ wasQueued = {}

InitLimit ==
    /\ concurrency \in 1..MaxConcurrency
    /\ running = 0
    /\ queue = <<>>
    /\ taskState = [t \in Tasks |-> "new"]
    /\ fnOutcome = [t \in Tasks |-> "none"]
    /\ wasQueued = {}

\* limit(fn) is called for task t (tasks are submitted in the order of their ids).
Limit(t) ==
    /\ taskState[t] = "new"
    /\ \A u \in Tasks : u < t => taskState[u] # "new"
    /\ LET s == LimitSubmit(running, queue, concurrency, t)
       IN  /\ running' = s.running
           /\ queue' = s.queue
           /\ taskState' = [taskState EXCEPT ![t] =
                               IF s.started = <<t>> THEN "running" ELSE "queued"]
           /\ wasQueued' = IF s.started = <<t>> THEN wasQueued ELSE wasQueued \cup {t}
    /\ UNCHANGED <<concurrency, fnOutcome>>

\* The fn() of running task t settles with outcome o: run's try/catch/finally.
RunSettles(t, o) ==
    /\ taskState[t] = "running"
    /\ LET s == LimitSettle(running, queue, concurrency, o)
       IN  /\ running' = s.running
           /\ queue' = s.queue
           /\ taskState' = [u \in Tasks |->
                               IF u = t THEN SettledAs(o)
                               ELSE IF s.started = <<u>> THEN "running"
                               ELSE taskState[u]]
    /\ fnOutcome' = [fnOutcome EXCEPT ![t] = o]
    /\ UNCHANGED <<concurrency, wasQueued>>


(***************************************************************************)
(* The filesystem seen by collectFiles.  A path is the sequence of its     *)
(* segments; Root is the workspace folder.  The nodes are fixed, which of  *)
(* them are directories is chosen in the initial state.                    *)
(***************************************************************************)
Root == <<"w">>

Universe ==
    { Root,
      <<"w", "a">>, <<"w", "b">>,
      <<"w", "a", "a">>, <<"w", "a", "b">>, <<"w", "b", "a">>,
      <<"w", "a", "a", "a">> }

DirCandidates == { <<"w", "a">>, <<"w", "b">>, <<"w", "a", "a">> }

\* The names of the model; the order in which readDirectory lists them belongs to
\* the filesystem (listOrder).
ListNames == <<"a", "b">>

Reverse(q) == [i \in 1..Len(q) |-> q[Len(q) + 1 - i]]

IsPrefix(p, u) == Len(p) <= Len(u) /\ SubSeq(u, 1, Len(p)) = p

\* u is beneath d: d is a proper prefix of u.
Beneath(d, u) == IsPrefix(d, u) /\ d # u

\* A node exists when every node above it is a directory.
Exists(u) ==
    /\ u \in Universe
    /\ \A d \in Universe : Beneath(d, u) => fsKind[d] = "dir"

\* A faulty variant: the listing comes in another order while operations wait.
ReadDirectoryUnstable(uri) ==
    LET Listed(n) == Append(uri, n) \in Universe
    IN  SelectSeq(IF fsQueue = <<>> THEN listOrder ELSE Reverse(listOrder), Listed)

\* vscode.workspace.fs.readDirectory(uri): the names of the children, in listing order.
ReadDirectory(uri) ==
    LET Listed(n) == Append(uri, n) \in Universe
    IN  SelectSeq(listOrder, Listed)

(***************************************************************************)
(* The matcher.  collectFiles asks it about a root-relative path, and for  *)
(* a directory about that path with a trailing slash; a candidate is the   *)
(* pair of the relative path and the trailing "/" or "".  The matcher is   *)
(* opaque to collectFiles: it is the set of the candidates it ignores.     *)
(***************************************************************************)
IgnoreCandidates ==
    { << <<"a">>, "/" >>, << <<"a", "b">>, "" >>, << <<"b">>, "" >> }

Ignores(parser, candidate) == candidate \in parser

\* utils.ts:53   path.relative(root.fsPath, uri.fsPath).split(path.sep).join("/")
Rel(root, uri) == SubSeq(uri, Len(root) + 1, Len(uri))

\* A faulty variant: a directory is tested without the trailing slash.
PruneDirectoryNoSlash(parser, rel) == rel # <<>> /\ Ignores(parser, <<rel, "">>)

\* utils.ts:56-57  relDir = rel === "" ? undefined : `${rel}/`;  relDir && ignores(relDir)
PruneDirectory(parser, rel) == rel # <<>> /\ Ignores(parser, <<rel, "/">>)

\* A faulty variant: a file is never tested against the matcher.
FileIgnoredNever(parser, rel) == FALSE

\* utils.ts:79   rel !== "" && ignoreParser.ignores(rel)
FileIgnored(parser, rel) == rel # <<>> /\ Ignores(parser, <<rel, "">>)

\* utils.ts:63   maxFiles !== undefined && counter && counter.count >= maxFiles
LoopCapReached(count, max) == count >= max

\* A faulty variant: the file branch admits one file too many.
FileCapReachedOffByOne(count, max) == count > max

\* utils.ts:80-81  if (counter.count >= maxFiles) { return []; }
FileCapReached(count, max) == count >= max

\* utils.ts:52   if (signal?.aborted) { return []; }
EntryAborted == aborted

\* A faulty variant: a directory is listed without a look at the token.
DirectoryAbortedNever == FALSE

\* utils.ts:58   if (signal?.aborted) { return []; }
DirectoryAborted == aborted

\* A faulty variant: the for loop does not look at the token.
LoopAbortedNever == FALSE

\* utils.ts:62   if (signal?.aborted) { break; }
LoopAborted == aborted

(***************************************************************************)
(* collectFiles: utils.ts 44-85.  A frame is one invocation:               *)
(*   uri   its argument,                                                   *)
(*   pc    "stat" (awaiting line 54), "list" (awaiting line 59) or "loop"  *)
(*         (in the for loop, awaiting the recursive call of line 72),      *)
(*   kids  the names of the listing not yet visited,                       *)
(*   out   the array out.                                                  *)
(* A step of the walk yields the new stack, whether the outermost call     *)
(* returned (done, with ret), the counter, the diagnostics written, the     *)
(* invocations of collectFiles made so far (ent) and the filesystem        *)
(* operation handed to fsLimit ("none" when the call returned).            *)
(***************************************************************************)
Calls == {"c1", "c2"}

NewFrame(uri) == [uri |-> uri, pc |-> "stat", kids |-> <<>>, out |-> <<>>]

\* utils.ts:73-75  if (nested.length) { out.push(...nested); }
MergeNested(out, nested) == out \o nested

\* The frame on top of stk receives ret from the recursive call it awaited (or
\* enters its loop, with ret empty) and runs the for loop of lines 61-76 up to
\* the next await; a frame that leaves the loop returns out to the frame below.
RECURSIVE Unwind(_, _, _, _, _)
Unwind(stk, ret, count, warns, ent) ==
    IF stk = <<>>
    THEN [stk |-> <<>>, done |-> TRUE, ret |-> ret, count |-> count,
          warns |-> warns, ent |-> ent, op |-> "none"]
    ELSE
        LET f == Top(stk)
            out == MergeNested(f.out, ret)
        IN  IF f.kids = <<>> \/ LoopAborted
            THEN Unwind(Pop(stk), out, count, warns, ent)
            ELSE IF LoopCapReached(count, maxFiles)
            THEN Unwind(Pop(stk), out, count,
                        IF count = maxFiles THEN warns + 1 ELSE warns, ent)
            ELSE
                LET g == [f EXCEPT !.pc = "loop", !.kids = Tail(f.kids), !.out = out]
                    childUri == Append(f.uri, Head(f.kids))
                IN  IF EntryAborted
                    THEN Unwind(Append(Pop(stk), g), <<>>, count, warns, ent + 1)
                    ELSE [stk |-> Append(Append(Pop(stk), g), NewFrame(childUri)),
                          done |-> FALSE, ret |-> <<>>, count |-> count,
                          warns |-> warns, ent |-> ent + 1, op |-> "stat"]

\* utils.ts:55-59 and 79-84: the frame on top of stk resumes after its stat.
AfterStat(stk, count, warns, ent) ==
    LET f == Top(stk)
        rel == Rel(Root, f.uri)
    IN  IF fsKind[f.uri] = "dir"
        THEN IF PruneDirectory(ignoreParser, rel) \/ DirectoryAborted
             THEN Unwind(Pop(stk), <<>>, count, warns, ent)
             ELSE [stk |-> Append(Pop(stk), [f EXCEPT !.pc = "list"]),
                   done |-> FALSE, ret |-> <<>>, count |-> count,
                   warns |-> warns, ent |-> ent, op |-> "list"]
        ELSE IF FileIgnored(ignoreParser, rel) \/ FileCapReached(count, maxFiles)
             THEN Unwind(Pop(stk), <<>>, count, warns, ent)
             ELSE Unwind(Pop(stk), <<f.uri>>, count + 1, warns, ent)

\* utils.ts:59-61: the frame on top of stk resumes after its readDirectory.
AfterList(stk, count, warns, ent) ==
    LET f == Top(stk)
        g == [f EXCEPT !.pc = "loop", !.kids = ReadDirectory(f.uri)]
    IN  Unwind(Append(Pop(stk), g), <<>>, count, warns, ent)

\* The paths held in the out arrays of the frames of a stack.
RECURSIVE Gathered(_)
Gathered(stk) ==
    IF stk = <<>> THEN {} ELSE Range(Head(stk).out) \cup Gathered(Tail(stk))

ColIdle ==
    /\ fsKind = <<>>
    /\ ignoreParser = {}
    /\ maxFiles = 0
    /\ fsConcurrency = 0
    /\ callUri = <<>>
    /\ callState = <<>>
    /\ stack = <<>>
    /\ result = <<>>
    /\ counter = 0
    /\ aborted = FALSE
    /\ fsRunning = 0
    /\ fsQueue = <<>>
    /\ issued = <<>>
    /\ capWarnings = 0
    /\ gatheredAtAbort = <<>>
    /\ listOrder = <<>>
    /\ sharing = TRUE
    /\ fresh = <<>>
    /\ entered = <<>>

\* uris: the uris the two calls may be given; shared: do they share the counter;
\* orders: the listing orders the filesystem may have.
InitCollectWith(uris, shared, orders) ==
    /\ \E dirs \in SUBSET DirCandidates :
          /\ \A d \in dirs : \A e \in DirCandidates : Beneath(e, d) => e \in dirs
          /\ fsKind = [u \in Universe |->
                          IF u = Root \/ u \in dirs THEN "dir" ELSE "file"]
    /\ ignoreParser \in SUBSET IgnoreCandidates
    /\ maxFiles \in 1..MaxCap
    /\ fsConcurrency \in 1..MaxFsConcurrency
    /\ callUri \in {f \in uris : \A c \in Calls : Exists(f[c])}
    /\ callState = [c \in Calls |-> "idle"]
    /\ stack = [c \in Calls |-> <<>>]
    /\ result = [c \in Calls |-> <<>>]
    /\ counter = 0
    /\ aborted = FALSE
    /\ fsRunning = 0
    /\ fsQueue = <<>>
    /\ issued = [c \in Calls |-> {}]
    /\ capWarnings = 0
    /\ gatheredAtAbort = [c \in Calls |-> [inFlight |-> FALSE, paths |-> {}]]
    /\ listOrder \in orders
    /\ sharing = shared
    /\ fresh = [c \in Calls |-> 0]
    /\ entered = [c \in Calls |-> 0]

\* resolveSelectedFiles: the root is collected, and a uri beneath it, with the
\* counter of the root shared between them.
InitCollect ==
    InitCollectWith({f \in [Calls -> {Root, <<"w", "a">>, <<"w", "a", "b">>}] :
                        f["c1"] = Root /\ f["c2"] # Root},
                    TRUE, {ListNames})

\* The counter object call c was given: counter.count.
CounterOf(c) == IF sharing THEN counter ELSE fresh[c]

\* A caller invokes collectFiles(callUri[c], ...) with the shared counter:
\* lines 52-54, up to the await of the stat.
CollectFiles(c) ==
    /\ callState[c] = "idle"
    /\ IF EntryAborted
       THEN /\ callState' = [callState EXCEPT ![c] = "resolved"]
            /\ UNCHANGED <<stack, fsRunning, fsQueue, issued>>
       ELSE LET s == LimitSubmit(fsRunning, fsQueue, fsConcurrency, c)
            IN  /\ callState' = [callState EXCEPT ![c] = "active"]
                /\ stack' = [stack EXCEPT ![c] = <<NewFrame(callUri[c])>>]
                /\ fsRunning' = s.running
                /\ fsQueue' = s.queue
                /\ issued' = [issued EXCEPT ![c] = @ \cup {<<"stat", callUri[c]>>}]
    /\ entered' = [entered EXCEPT ![c] = @ + 1]
    /\ UNCHANGED <<fsKind, ignoreParser, maxFiles, fsConcurrency, callUri, result,
                   counter, aborted, capWarnings, gatheredAtAbort, listOrder, sharing,
                   fresh>>

\* The filesystem operation of call c, started by fsLimit, completes.  The finally
\* block of run gives the slot back and starts the head of the queue; then the
\* call's continuation runs: a failure is thrown through every frame (collectFiles
\* has no try), a success resumes the frame on top.
FsCompletes(c, ok) ==
    /\ callState[c] = "active"
    /\ c \notin Range(fsQueue)
    /\ LET s == LimitSettle(fsRunning, fsQueue, fsConcurrency, IF ok THEN "ok" ELSE "err")
       IN  IF ~ok
           THEN /\ callState' = [callState EXCEPT ![c] = "rejected"]
                /\ stack' = [stack EXCEPT ![c] = <<>>]
                /\ fsRunning' = s.running
                /\ fsQueue' = s.queue
                /\ UNCHANGED <<result, counter, fresh, issued, capWarnings, entered>>
           ELSE LET k == IF Top(stack[c]).pc = "stat"
                         THEN AfterStat(stack[c], CounterOf(c), capWarnings, entered[c])
                         ELSE AfterList(stack[c], CounterOf(c), capWarnings, entered[c])
                    s2 == IF k.op = "none"
                          THEN s
                          ELSE LimitSubmit(s.running, s.queue, fsConcurrency, c)
                IN  /\ stack' = [stack EXCEPT ![c] = k.stk]
                    /\ callState' = [callState EXCEPT ![c] =
                                        IF k.done THEN "resolved" ELSE "active"]
                    /\ result' = [result EXCEPT ![c] = IF k.done THEN k.ret ELSE @]
                    /\ counter' = IF sharing THEN k.count ELSE counter
                    /\ fresh' = IF sharing THEN fresh ELSE [fresh EXCEPT ![c] = k.count]
                    /\ capWarnings' = k.warns
                    /\ entered' = [entered EXCEPT ![c] = k.ent]
                    /\ fsRunning' = s2.running
                    /\ fsQueue' = s2.queue
                    /\ issued' = [issued EXCEPT ![c] =
                                     IF k.op = "none" THEN @
                                     ELSE @ \cup {<<k.op, Top(k.stk).uri>>}]
    /\ UNCHANGED <<fsKind, ignoreParser, maxFiles, fsConcurrency, callUri, aborted,
                   gatheredAtAbort, listOrder, sharing>>

\* The caller signals the token (refreshAndUpdate: currentAbort.abort()).
Abort ==
    /\ ~aborted
    /\ aborted' = TRUE
    /\ gatheredAtAbort' = [c \in Calls |->
                              [inFlight |-> callState[c] = "active",
                               paths |-> Gathered(stack[c])]]
    /\ UNCHANGED <<fsKind, ignoreParser, maxFiles, fsConcurrency, callUri, callState,
                   stack, result, counter, fsRunning, fsQueue, issued, capWarnings,
                   listOrder, sharing, fresh, entered>>

(***************************************************************************)
(* The files seen by countTokens and isBinary.  A content is a sequence of *)
(* bytes (0 is the zero byte); a write gives the file a new mtime.         *)
(***************************************************************************)
TokPaths == {"p1", "p2"}

TaskIds == DOMAIN countPaths

\* The last one is one byte over the preview ceiling.
Contents == { <<1>>, <<2>>, <<0>>, <<1, 0>>, [i \in 1..(MaxPreviewBytes + 1) |-> 1] }

\* The file whose content varies (in the initial state, and by WriteFile), the
\* file the copy command asks isBinary about, and the content of the other file.
WrittenPath == "p1"
OtherContent == <<2>>

NoStats == [ok |-> FALSE, mtime |-> 0, size |-> 0]

\* vscode.workspace.fs.stat(uri): the metadata of the file as it is now.
StatOf(p) == [ok |-> TRUE, mtime |-> disk[p].mtime, size |-> Len(disk[p].content)]

Min(a, b) == IF a <= b THEN a ELSE b

RECURSIVE SumBytes(_)
SumBytes(c) == IF c = <<>> THEN 0 ELSE Head(c) + SumBytes(Tail(c))

\* encode(text).length: the tokenizer is a library; the count stands for it as a
\* number that tells apart the contents of the model, also those of equal size.
Tokens(content) == Len(content) + SumBytes(content)

(***************************************************************************)
(* A Map, as the sequence of its entries [key, val] in insertion order:    *)
(* set() of a key it holds keeps the key's place.                          *)
(***************************************************************************)
MapHas(m, k) == \E i \in 1..Len(m) : m[i].key = k

MapGet(m, k) == m[CHOOSE i \in 1..Len(m) : m[i].key = k].val

\* A faulty variant: overwriting a key moves it behind the others (delete, then set).
MapSetMovesToEnd(m, k, v) ==
    Append(SelectSeq(m, LAMBDA e : e.key # k), [key |-> k, val |-> v])

\* Map.set: a new key goes last, a key the Map holds keeps its place.
MapSet(m, k, v) ==
    IF MapHas(m, k)
    THEN [i \in 1..Len(m) |-> IF m[i].key = k THEN [key |-> k, val |-> v] ELSE m[i]]
    ELSE Append(m, [key |-> k, val |-> v])

\* utils.ts:95-103 evictOldestBinaryCacheEntries, and evictOldestCacheEntries of the
\* token counter: delete the first size - max entries of the Map.
EvictOldest(m, max) ==
    IF Len(m) > max THEN SubSeq(m, Len(m) - max + 1, Len(m)) ELSE m

(***************************************************************************)
(* isBinary: utils.ts 119-169.                                             *)
(***************************************************************************)
\* A faulty variant: any entry of the path is a hit.
BinaryCacheHitAnyMtime(cached, stats) == TRUE

\* utils.ts:125   cached.mtime === stats.mtime
BinaryCacheHit(cached, stats) == cached.mtime = stats.mtime

\* utils.ts:123-127: the lookup after the stat; a failed stat skips it.
BinaryLookup(cache, p, stats) ==
    IF stats.ok /\ MapHas(cache, p) /\ BinaryCacheHit(MapGet(cache, p), stats)
    THEN [hit |-> TRUE, verdict |-> MapGet(cache, p).isBinary,
          served |-> [ok |-> TRUE, mtime |-> MapGet(cache, p).mtime, size |-> 0]]
    ELSE [hit |-> FALSE, verdict |-> FALSE, served |-> NoStats]

\* A faulty variant: the whole content is searched, not its first 512 bytes.
ZeroByFullReadWholeFile(content) ==
    \E i \in 1..Len(content) : content[i] = 0

\* utils.ts:153-154   bytes.subarray(0, 512).some(b => b === 0)
ZeroByFullRead(content) ==
    \E i \in 1..Min(Len(content), ScanBytes) : content[i] = 0

\* The content as the stream delivers it, in chunks of n bytes.
RECURSIVE StreamChunks(_, _)
StreamChunks(content, n) ==
    IF content = <<>> THEN <<>>
    ELSE <<SubSeq(content, 1, Min(n, Len(content)))>>
             \o StreamChunks(SubSeq(content, Min(n, Len(content)) + 1, Len(content)), n)

\* utils.ts:137-149: the loop over the chunks, stopping after 512 bytes.
RECURSIVE ZeroByStream(_, _)
ZeroByStream(chunks, scanned) ==
    IF scanned >= ScanBytes \/ chunks = <<>>
    THEN FALSE
    ELSE LET value == Head(chunks)
             n == Min(Len(value), ScanBytes - scanned)
         IN  IF \E i \in 1..n : value[i] = 0
             THEN TRUE
             ELSE ZeroByStream(Tail(chunks), scanned + n)

\* How the content is read: the full read, or the stream in chunks of 1 or 2 bytes.
ReadVariants == {"full", "stream1", "stream2"}

ZeroByte(content, variant) ==
    IF variant = "full" THEN ZeroByFullRead(content)
    ELSE IF variant = "stream1" THEN ZeroByStream(StreamChunks(content, 1), 0)
    ELSE ZeroByStream(StreamChunks(content, 2), 0)

\* A faulty variant: the verdict is written also when the stat had failed.
BinaryStoreWithoutStat(cache, p, stats, verdict) ==
    EvictOldest(MapSet(cache, p, [isBinary |-> verdict, mtime |-> stats.mtime]),
                MaxBinaryCacheSize)

\* utils.ts:157-160 and 163-166: if (stats) { isBinaryCache.set(...); evict...() }
BinaryStore(cache, p, stats, verdict) ==
    IF stats.ok
    THEN EvictOldest(MapSet(cache, p, [isBinary |-> verdict, mtime |-> stats.mtime]),
                     MaxBinaryCacheSize)
    ELSE cache

\* utils.ts:132-168: the content check; a failed read gives true.
BinaryClassify(cache, p, stats, ok, content, variant) ==
    LET verdict == IF ok THEN ZeroByte(content, variant) ELSE TRUE
    IN  [verdict |-> verdict, cache |-> BinaryStore(cache, p, stats, verdict)]

(***************************************************************************)
(* countTokens: the token counter (fileMapGenerator.test.ts 272-331).      *)
(* A task is the async function given to limit for one path:               *)
(*   pc      "idle" | "queued" | "stat" | "bstat" | "bread" | "read" |     *)
(*           "done": where it awaits (bstat and bread are inside isBinary),*)
(*   stats   the stat of line 285,  bstats the stat isBinary took,         *)
(*   contrib what it returned,                                             *)
(*   how     why: "aborted" | "failed" | "large" | "cache" | "binary" |    *)
(*           "computed",                                                   *)
(*   miss    tokenCache held an entry of the path that did not match,      *)
(*   served  the metadata of the tokenCache entry it returned,             *)
(*   bhit, bserved  isBinary answered from its cache, and with which mtime,*)
(*   ops     the operations it issued, in order: "stat", "isBinary" (which *)
(*           starts with a stat of its own), "isBinary.read", "readFile",  *)
(*   bout    how the content read of isBinary ended: "none" | "ok" |       *)
(*           "failed",  bverdict  what isBinary returned: "none" | "text" |*)
(*           "binary".                                                     *)
(***************************************************************************)
IdleTask ==
    [pc |-> "idle", stats |-> NoStats, bstats |-> NoStats, contrib |-> 0,
     how |-> "none", miss |-> FALSE, served |-> NoStats, bhit |-> FALSE,
     bserved |-> NoStats, ops |-> <<>>, bout |-> "none", bverdict |-> "none"]

\* line 287   stats.size > MAX_PREVIEW_BYTES
\* A faulty variant: the ceiling off by one.
TooLargeOffByOne(stats) == stats.size > MaxPreviewBytes + 1

TooLarge(stats) == stats.size > MaxPreviewBytes

\* A faulty variant: an entry of the path is a hit whatever its metadata.
TokenCacheHitAnyMetadata(cached, stats) == TRUE

\* line 292   cached.mtime === stats.mtime && cached.size === stats.size
TokenCacheHit(cached, stats) == cached.mtime = stats.mtime /\ cached.size = stats.size

\* lines 312-317   tokenCache.set(absPath, {tokens, mtime, size}); evictOldestCacheEntries()
TokenStore(cache, p, tokens, stats) ==
    EvictOldest(MapSet(cache, p, [tokens |-> tokens, mtime |-> stats.mtime,
                                  size |-> stats.size]), MaxCacheSize)

\* A faulty variant: no try around the body, a failing stat or read rejects the task.
TaskSettlesAsUncaught(how) == IF how = "failed" THEN "rejected" ELSE "resolved"

\* lines 283 and 320-323: try { ... } catch (error) { return 0; }
TaskSettlesAs(how) == "resolved"

\* line 327   tokenCounts.reduce((a, b) => a + b, 0)
RECURSIVE SumContrib(_, _)
SumContrib(tk, n) == IF n = 0 THEN 0 ELSE tk[n].contrib + SumContrib(tk, n - 1)

\* Lines 17-23 of run after a task settled, and the start of the task taken from
\* the queue: lines 280-285 up to the await of stat; with the token signalled it
\* returns 0 at once and is settled in the same turn.
RECURSIVE SettleTask(_, _, _, _)
SettleTask(tk, r, q, outcome) ==
    LET s == LimitSettle(r, q, tokConcurrency, outcome)
    IN  IF s.started = <<>>
        THEN [task |-> tk, running |-> s.running, queue |-> s.queue]
        ELSE LET j == s.started[1]
             IN  IF tokAborted
                 THEN SettleTask([tk EXCEPT ![j] = [@ EXCEPT !.pc = "done", !.how = "aborted"]],
                                 s.running, s.queue, "ok")
                 ELSE [task |-> [tk EXCEPT ![j] = [@ EXCEPT !.pc = "stat",
                                                            !.ops = <<"stat">>]],
                       running |-> s.running, queue |-> s.queue]

\* Task i returns as rec says: its slot is given back, and Promise.all of
\* line 278 settles when every task has (or rejects with the first rejection).
Finish(i, rec) ==
    LET settles == TaskSettlesAs(rec.how)
        k == SettleTask([task EXCEPT ![i] = [rec EXCEPT !.pc = "done"]],
                        tokRunning, tokQueue, IF settles = "resolved" THEN "ok" ELSE "err")
        allDone == \A j \in TaskIds : k.task[j].pc = "done"
    IN  /\ task' = k.task
        /\ tokRunning' = k.running
        /\ tokQueue' = k.queue
        /\ countState' = IF settles = "rejected" \/ countState = "rejected" THEN "rejected"
                         ELSE IF allDone THEN "done"
                         ELSE countState
        /\ total' = IF allDone /\ settles = "resolved" /\ countState # "rejected"
                    THEN SumContrib(k.task, Len(countPaths))
                    ELSE total

\* The task goes on to its next await.
Await(i, rec) ==
    /\ task' = [task EXCEPT ![i] = rec]
    /\ UNCHANGED <<tokRunning, tokQueue, countState, total>>

\* paths.map(absPath => limit(...)): every task is handed to limit in order; one
\* that starts at once runs up to the await of stat.
RECURSIVE SubmitAll(_, _, _, _)
SubmitAll(ids, tk, r, q) ==
    IF ids = <<>>
    THEN [task |-> tk, running |-> r, queue |-> q]
    ELSE LET i == Head(ids)
             s == LimitSubmit(r, q, tokConcurrency, i)
         IN  SubmitAll(Tail(ids),
                       [tk EXCEPT ![i] =
                           IF s.started = <<i>>
                           THEN [IdleTask EXCEPT !.pc = "stat", !.ops = <<"stat">>]
                           ELSE [IdleTask EXCEPT !.pc = "queued"]],
                       s.running, s.queue)

TokIdle ==
    /\ disk = <<>>
    /\ tokenCache = <<>>
    /\ isBinaryCache = <<>>
    /\ tokAborted = FALSE
    /\ tokConcurrency = 0
    /\ tokRunning = 0
    /\ tokQueue = <<>>
    /\ countPaths = <<>>
    /\ task = <<>>
    /\ countState = "idle"
    /\ total = 0
    /\ rounds = 0
    /\ bin = <<>>
    /\ writes = 0
    /\ failedPaths = {}

IdleBin == [pc |-> "idle", path |-> "p1", stats |-> NoStats, verdict |-> FALSE,
            hit |-> FALSE, served |-> NoStats, ops |-> <<>>, bout |-> "none"]

\* The extension is loaded: the caches are empty and no call was made yet; paths
\* is the list countTokens will be given, limits the concurrency bounds of limit.
InitTokens(paths, limits) ==
    /\ \E c \in Contents :
          disk = [p \in TokPaths |->
                     [mtime |-> 1, content |-> IF p = WrittenPath THEN c ELSE OtherContent]]
    /\ tokenCache = <<>>
    /\ isBinaryCache = <<>>
    /\ tokAborted = FALSE
    /\ tokConcurrency \in limits
    /\ tokRunning = 0
    /\ tokQueue = <<>>
    /\ countPaths = paths
    /\ task = [i \in DOMAIN paths |-> IdleTask]
    /\ countState = "idle"
    /\ total = 0
    /\ rounds = 0
    /\ bin = IdleBin
    /\ writes = 0
    /\ failedPaths = {}

\* countTokens(countPaths, signal) is called: lines 273-285.
CountTokens ==
    /\ countState \in {"idle", "done"}
    /\ rounds < MaxRounds
    /\ rounds' = rounds + 1
    /\ IF tokAborted
       THEN /\ countState' = "done"
            /\ total' = 0
            /\ task' = [i \in TaskIds |-> IdleTask]
            /\ UNCHANGED <<tokRunning, tokQueue>>
       ELSE LET k == SubmitAll([i \in TaskIds |-> i], task, tokRunning, tokQueue)
            IN  /\ countState' = "running"
                /\ total' = 0
                /\ task' = k.task
                /\ tokRunning' = k.running
                /\ tokQueue' = k.queue
    /\ UNCHANGED <<disk, tokenCache, isBinaryCache, tokAborted, tokConcurrency, countPaths, bin,
                   writes, failedPaths>>

\* The stat of line 285 completes: lines 285-300, up to the stat inside isBinary.
StatCompletes(i, ok) ==
    /\ task[i].pc = "stat"
    /\ LET p == countPaths[i]
           st == StatOf(p)
           t == task[i]
       IN  IF ~ok
           THEN /\ Finish(i, [t EXCEPT !.how = "failed"])
                /\ failedPaths' = failedPaths \cup {p}
           ELSE /\ failedPaths' = failedPaths
                /\ IF TooLarge(st)
                   THEN Finish(i, [t EXCEPT !.stats = st, !.how = "large"])
                   ELSE IF MapHas(tokenCache, p) /\ TokenCacheHit(MapGet(tokenCache, p), st)
                   THEN Finish(i, [t EXCEPT !.stats = st, !.how = "cache",
                                            !.contrib = MapGet(tokenCache, p).tokens,
                                            !.served = [ok |-> TRUE,
                                                        mtime |-> MapGet(tokenCache, p).mtime,
                                                        size |-> MapGet(tokenCache, p).size]])
                   ELSE IF tokAborted
                   THEN Finish(i, [t EXCEPT !.stats = st, !.how = "aborted",
                                            !.miss = MapHas(tokenCache, p)])
                   ELSE Await(i, [t EXCEPT !.pc = "bstat", !.stats = st,
                                           !.miss = MapHas(tokenCache, p),
                                           !.ops = Append(@, "isBinary")])
    /\ UNCHANGED <<disk, tokenCache, isBinaryCache, tokAborted, tokConcurrency, countPaths, rounds,
                   bin, writes>>

\* A faulty variant: the token is not looked at before the content read.
AbortedBeforeReadNever(signalled) == FALSE

\* line 304   if (signal?.aborted) { return 0; }
AbortedBeforeRead(signalled) == signalled

\* isBinary returned verdict to the task: lines 300-308.
AfterIsBinary(i, rec, verdict) ==
    IF verdict
    THEN Finish(i, [rec EXCEPT !.how = "binary", !.bverdict = "binary"])
    ELSE IF AbortedBeforeRead(tokAborted)
    THEN Finish(i, [rec EXCEPT !.how = "aborted", !.bverdict = "text"])
    ELSE Await(i, [rec EXCEPT !.pc = "read", !.ops = Append(@, "readFile"),
                              !.bverdict = "text"])

\* The stat inside isBinary (utils.ts:123) completes for task i.
BinaryStatCompletes(i, ok) ==
    /\ task[i].pc = "bstat"
    /\ LET p == countPaths[i]
           st == IF ok THEN StatOf(p) ELSE NoStats
           look == BinaryLookup(isBinaryCache, p, st)
           t == [task[i] EXCEPT !.bstats = st, !.bhit = look.hit, !.bserved = look.served]
       IN  IF look.hit
           THEN AfterIsBinary(i, t, look.verdict)
           ELSE Await(i, [t EXCEPT !.pc = "bread", !.ops = Append(@, "isBinary.read")])
    /\ failedPaths' = IF ok THEN failedPaths ELSE failedPaths \cup {countPaths[i]}
    /\ UNCHANGED <<disk, tokenCache, isBinaryCache, tokAborted, tokConcurrency, countPaths, rounds,
                   bin, writes>>

\* The content read inside isBinary (utils.ts:132-168) completes for task i.
BinaryReadCompletes(i, ok) ==
    /\ task[i].pc = "bread"
    /\ \E variant \in ReadVariants :
          LET p == countPaths[i]
              k == BinaryClassify(isBinaryCache, p, task[i].bstats, ok,
                                  disk[p].content, variant)
          IN  /\ isBinaryCache' = k.cache
              /\ AfterIsBinary(i, [task[i] EXCEPT !.bout = IF ok THEN "ok" ELSE "failed"],
                               k.verdict)
    /\ failedPaths' = IF ok THEN failedPaths ELSE failedPaths \cup {countPaths[i]}
    /\ UNCHANGED <<disk, tokenCache, tokAborted, tokConcurrency, countPaths, rounds, bin, writes>>

\* The readFile of line 308 completes: lines 308-323.
ReadFileCompletes(i, ok) ==
    /\ task[i].pc = "read"
    /\ LET p == countPaths[i]
           t == task[i]
           tokens == Tokens(disk[p].content)
       IN  IF ok
           THEN /\ tokenCache' = TokenStore(tokenCache, p, tokens, t.stats)
                /\ Finish(i, [t EXCEPT !.contrib = tokens, !.how = "computed"])
                /\ failedPaths' = failedPaths
           ELSE /\ tokenCache' = tokenCache
                /\ Finish(i, [t EXCEPT !.how = "failed"])
                /\ failedPaths' = failedPaths \cup {p}
    /\ UNCHANGED <<disk, isBinaryCache, tokAborted, tokConcurrency, countPaths, rounds, bin, writes>>

\* isBinary(p) is called by the copy command, outside countTokens: up to utils.ts:123.
IsBinary(p) ==
    /\ bin.pc = "idle"
    /\ bin' = [IdleBin EXCEPT !.pc = "stat", !.path = p, !.ops = <<"stat">>]
    /\ UNCHANGED <<disk, tokenCache, isBinaryCache, tokAborted, tokConcurrency, countPaths,
                   tokRunning, tokQueue, task, countState, total, rounds, writes,
                   failedPaths>>

\* Its stat completes: utils.ts:123-130.
IsBinaryStatCompletes(ok) ==
    /\ bin.pc = "stat"
    /\ LET st == IF ok THEN StatOf(bin.path) ELSE NoStats
           look == BinaryLookup(isBinaryCache, bin.path, st)
       IN  bin' = [bin EXCEPT !.stats = st, !.hit = look.hit, !.served = look.served,
                              !.verdict = look.verdict,
                              !.pc = IF look.hit THEN "done" ELSE "read",
                              !.ops = IF look.hit THEN @ ELSE Append(@, "read")]
    /\ failedPaths' = IF ok THEN failedPaths ELSE failedPaths \cup {bin.path}
    /\ UNCHANGED <<disk, tokenCache, isBinaryCache, tokAborted, tokConcurrency, countPaths,
                   tokRunning, tokQueue, task, countState, total, rounds, writes>>

\* Its content read completes: utils.ts:132-168.
IsBinaryReadCompletes(ok) ==
    /\ bin.pc = "read"
    /\ \E variant \in ReadVariants :
          LET k == BinaryClassify(isBinaryCache, bin.path, bin.stats, ok,
                                  disk[bin.path].content, variant)
          IN  /\ isBinaryCache' = k.cache
              /\ bin' = [bin EXCEPT !.pc = "done", !.verdict = k.verdict,
                                     !.bout = IF ok THEN "ok" ELSE "failed"]
    /\ failedPaths' = IF ok THEN failedPaths ELSE failedPaths \cup {bin.path}
    /\ UNCHANGED <<disk, tokenCache, tokAborted, tokConcurrency, countPaths, tokRunning, tokQueue,
                   task, countState, total, rounds, writes>>

\* Something outside writes content c to file p: a new mtime, and the size of c.
WriteFile(p, c) ==
    /\ writes < MaxWrites
    /\ writes' = writes + 1
    /\ disk' = [disk EXCEPT ![p] = [mtime |-> @.mtime + 1, content |-> c]]
    /\ UNCHANGED <<tokenCache, isBinaryCache, tokAborted, tokConcurrency, countPaths, tokRunning,
                   tokQueue, task, countState, total, rounds, bin, failedPaths>>

\* The caller signals the token of the countTokens call.
TokAbort ==
    /\ ~tokAborted
    /\ tokAborted' = TRUE
    /\ UNCHANGED <<disk, tokenCache, isBinaryCache, tokConcurrency, countPaths, tokRunning,
                   tokQueue, task, countState, total, rounds, bin, writes, failedPaths>>

(***************************************************************************)
(* A bounded cache on its own: the Map with the insertion of utils.ts      *)
(* 157-160 and of lines 312-317 of the token counter, set() followed by    *)
(* the eviction, under a capacity of the model.                            *)
(***************************************************************************)
EvictKeys == 1..MaxEvictKeys

MapKeys(m) == {m[i].key : i \in 1..Len(m)}

EvIdle ==
    /\ evCache = <<>>
    /\ evCapacity = 0
    /\ evClock = 0
    /\ evInsertedAt = <<>>
    /\ evEvicted = {}
    /\ evTouched = {}

InitEvict ==
    /\ evCache = <<>>
    /\ evCapacity \in 1..MaxEvictCapacity
    /\ evClock = 0
    /\ evInsertedAt = [k \in EvictKeys |-> 0]
    /\ evEvicted = {}
    /\ evTouched = {}

\* cache.set(k, value); evictOldest...Entries()
CacheInsert(k) ==
    /\ evClock < MaxEvictOps
    /\ evClock' = evClock + 1
    /\ LET written == MapSet(evCache, k, evClock + 1)
           kept == EvictOldest(written, evCapacity)
       IN  /\ evCache' = kept
           /\ evEvicted' = MapKeys(written) \ MapKeys(kept)
           /\ evInsertedAt' = IF MapHas(evCache, k) THEN evInsertedAt
                              ELSE [evInsertedAt EXCEPT ![k] = evClock + 1]
           /\ evTouched' = IF MapHas(evCache, k) THEN evTouched \cup {k} ELSE evTouched \ {k}
    /\ UNCHANGED evCapacity

\* cache.get(k) of a key the cache holds: the Map is not changed.
CacheRead(k) ==
    /\ MapHas(evCache, k)
    /\ k \notin evTouched
    /\ evTouched' = evTouched \cup {k}
    /\ UNCHANGED <<evCache, evCapacity, evClock, evInsertedAt, evEvicted>>

(***************************************************************************)
(* getIgnoreParser: getIgnoreParser.ts 6-34.                               *)
(*                                                                         *)
(* The matcher is an object of the library "ignore", which follows the     *)
(* rules of gitignore: the rules are kept in the order they were added; a  *)
(* path under an ignored directory is ignored; otherwise the last rule     *)
(* that matches the path decides, a rule with "!" un-ignoring it.  A rule  *)
(* ending in "/" matches only a path given with a trailing slash.          *)
(***************************************************************************)
\* A line of .gitignore as the library reads it.
ParseLine(l) ==
    CASE l = ".git/"        -> [neg |-> FALSE, comps |-> <<".git">>, dirOnly |-> TRUE]
      [] l = ".git"         -> [neg |-> FALSE, comps |-> <<".git">>, dirOnly |-> FALSE]
      [] l = "*.log"        -> [neg |-> FALSE, comps |-> <<"*.log">>, dirOnly |-> FALSE]
      [] l = "*.tmp"        -> [neg |-> FALSE, comps |-> <<"*.tmp">>, dirOnly |-> FALSE]
      [] l = "!.git"        -> [neg |-> TRUE, comps |-> <<".git">>, dirOnly |-> FALSE]
      [] l = "!.git/"       -> [neg |-> TRUE, comps |-> <<".git">>, dirOnly |-> TRUE]
      [] l = "!.git/config" -> [neg |-> TRUE, comps |-> <<".git", "config">>, dirOnly |-> FALSE]

\* getIgnoreParser.ts:6
DEFAULT_IGNORE_PATTERNS == <<".git/", ".git">>

\* The contents .gitignore may have.
IgnoreFiles ==
    { <<>>, <<"*.log">>, <<"*.log", "*.tmp">>, <<"!.git">>, <<"!.git/">>,
      <<"!.git/config">> }

\* A path given to ignores(): its components, and whether it ends in a slash.
PathOf(comps, slash) == [comps |-> comps, dir |-> slash]

NameMatches(glob, name) ==
    \/ glob = name
    \/ glob = "*.log" /\ name \in {"a.log"}
    \/ glob = "*.tmp" /\ name \in {"test.tmp"}

\* Does the rule match the path itself: a rule without an inner slash matches the
\* last component at any depth, a rule with one matches from the root.
RuleMatches(rule, path) ==
    /\ rule.dirOnly => path.dir
    /\ IF Len(rule.comps) = 1
       THEN NameMatches(rule.comps[1], path.comps[Len(path.comps)])
       ELSE /\ Len(rule.comps) = Len(path.comps)
            /\ \A i \in 1..Len(rule.comps) : NameMatches(rule.comps[i], path.comps[i])

\* The rules in order, the last one that matches deciding.
RECURSIVE TestOne(_, _, _)
TestOne(rules, path, ignored) ==
    IF rules = <<>> THEN ignored
    ELSE TestOne(Tail(rules), path,
                 IF RuleMatches(ParseLine(Head(rules)), path)
                 THEN ~ParseLine(Head(rules)).neg
                 ELSE ignored)

\* parser.ignores(path): a path whose parent directory is ignored is ignored.
RECURSIVE ParserIgnores(_, _)
ParserIgnores(rules, path) ==
    IF Len(path.comps) = 1
    THEN TestOne(rules, path, FALSE)
    ELSE \/ ParserIgnores(rules, PathOf(SubSeq(path.comps, 1, Len(path.comps) - 1), TRUE))
         \/ TestOne(rules, path, FALSE)

\* line 26   ignore().add(DEFAULT_IGNORE_PATTERNS).add(gitIgnoreContent)
BuildParser(content) == DEFAULT_IGNORE_PATTERNS \o content

\* line 32   ignore().add(DEFAULT_IGNORE_PATTERNS)
DefaultParser == DEFAULT_IGNORE_PATTERNS

\* A faulty variant: an entry of the root is returned whatever its mtime.
IgnoreCacheHitAnyMtime(cached, stat) == cached # <<>>

\* line 14   cached && cached.mtime === stat.mtime
IgnoreCacheHit(cached, stat) == cached # <<>> /\ cached[1].mtime = stat.mtime

\* The calls: two may be in flight at a time.
IgnCalls == {"g1", "g2"}

IdleIgnCall == [pc |-> "idle", mtime |-> 0, start |-> 0]

IgnIdle ==
    /\ gitIgnore = <<>>
    /\ ignoreParserCache = <<>>
    /\ parsers = <<>>
    /\ ignCall = <<>>
    /\ ignClock = 0
    /\ ignLog = <<>>
    /\ ignWrites = 0

\* The extension is activated: ignoreParserCache is empty; the root may or may not
\* have a .gitignore.
InitIgnore ==
    /\ \/ \E c \in IgnoreFiles : gitIgnore = [exists |-> TRUE, mtime |-> 1, content |-> c]
       \/ gitIgnore = [exists |-> FALSE, mtime |-> 1, content |-> <<>>]
    /\ ignoreParserCache = <<>>
    /\ parsers = <<>>
    /\ ignCall = [g \in IgnCalls |-> IdleIgnCall]
    /\ ignClock = 0
    /\ ignLog = <<>>
    /\ ignWrites = 0

\* getIgnoreParser(root) is called: lines 9-11, up to the await of stat.
GetIgnoreParser(g) ==
    /\ ignCall[g].pc = "idle"
    /\ Len(ignLog) + Cardinality({h \in IgnCalls : ignCall[h].pc # "idle"}) < MaxParserCalls
    /\ ignClock' = ignClock + 1
    /\ ignCall' = [ignCall EXCEPT ![g] = [pc |-> "stat", mtime |-> 0, start |-> ignClock + 1]]
    /\ UNCHANGED <<gitIgnore, ignoreParserCache, parsers, ignLog, ignWrites>>

\* The call returns parser p: the matcher goes to the caller.
IgnReturn(g, p, how, mtime) ==
    /\ ignClock' = ignClock + 1
    /\ ignLog' = Append(ignLog, [parser |-> p, how |-> how, mtime |-> mtime,
                                 start |-> ignCall[g].start, end |-> ignClock + 1,
                                 content |-> gitIgnore.content])
    /\ ignCall' = [ignCall EXCEPT ![g] = IdleIgnCall]

\* lines 30-33: the catch block makes a matcher of the default patterns.
IgnCatch(g) ==
    /\ parsers' = Append(parsers, DefaultParser)
    /\ IgnReturn(g, Len(parsers) + 1, "default", 0)
    /\ UNCHANGED ignoreParserCache

\* The stat of line 11 completes: lines 11-18; it fails when there is no file.
IgnoreStatCompletes(g, ok) ==
    /\ ignCall[g].pc = "stat"
    /\ ok => gitIgnore.exists
    /\ IF ~ok
       THEN IgnCatch(g)
       ELSE IF IgnoreCacheHit(ignoreParserCache, gitIgnore)
       THEN /\ IgnReturn(g, ignoreParserCache[1].parser, "hit", gitIgnore.mtime)
            /\ UNCHANGED <<parsers, ignoreParserCache>>
       ELSE /\ ignCall' = [ignCall EXCEPT ![g] = [@ EXCEPT !.pc = "read",
                                                            !.mtime = gitIgnore.mtime]]
            /\ UNCHANGED <<parsers, ignoreParserCache, ignClock, ignLog>>
    /\ UNCHANGED <<gitIgnore, ignWrites>>

\* The readFile of line 18 completes: lines 18-29.
IgnoreReadCompletes(g, ok) ==
    /\ ignCall[g].pc = "read"
    /\ ok => gitIgnore.exists
    /\ IF ~ok
       THEN IgnCatch(g)
       ELSE /\ parsers' = Append(parsers, BuildParser(gitIgnore.content))
            /\ ignoreParserCache' =
                  <<[parser |-> Len(parsers) + 1, mtime |-> ignCall[g].mtime]>>
            /\ IgnReturn(g, Len(parsers) + 1, "built", ignCall[g].mtime)
    /\ UNCHANGED <<gitIgnore, ignWrites>>

\* Somebody writes .gitignore (creating it if need be) or deletes it.
WriteGitIgnore(c) ==
    /\ ignWrites < MaxIgnoreWrites
    /\ ignWrites' = ignWrites + 1
    /\ gitIgnore' = [exists |-> TRUE, mtime |-> gitIgnore.mtime + 1, content |-> c]
    /\ UNCHANGED <<ignoreParserCache, parsers, ignCall, ignClock, ignLog>>

DeleteGitIgnore ==
    /\ ignWrites < MaxIgnoreWrites
    /\ gitIgnore.exists
    /\ ignWrites' = ignWrites + 1
    /\ gitIgnore' = [exists |-> FALSE, mtime |-> gitIgnore.mtime, content |-> <<>>]
    /\ UNCHANGED <<ignoreParserCache, parsers, ignCall, ignClock, ignLog>>

(***************************************************************************)
(* The file map: fileMapGenerator.ts (src/unnamed/part_000 190-329).       *)
(* A file path is a string; the model keeps its components, comps, and     *)
(* whether it is spelled with a "." segment ("/w/./a"), which Set.has      *)
(* tells apart and path.relative does not.  A workspace root has one       *)
(* component.  The tree is the sequence of its nodes in the order of their *)
(* creation, each with the parts from the root down to it: the children    *)
(* Map of a node is the subsequence of the nodes one part below it.  A     *)
(* string is the sequence of its lines; a line of the tree is the record   *)
(* of its prefix (a sequence of indentation units), connector, name and    *)
(* marker; the box-drawing characters are written in ASCII.                *)
(***************************************************************************)
MaxMapFiles == 3

\* The names, in the order of localeCompare.
NameOrder == <<"a", "b", "c">>

Workspaces == <<"w", "v">>

FilePath(comps, spelling) == [comps |-> comps, spelling |-> spelling]

\* The file paths of the model, all of them beneath the folder w.
FileStrings ==
    { FilePath(<<"w">> \o r, "plain") :
         r \in { <<"a">>, <<"a", "b">>, <<"b", "a">>, <<"b", "c">>, <<"b", "a", "a">> } }
    \cup { FilePath(<<"w", "a">>, "dot") }

\* A list of files of a filesystem: no file is a directory of another.
FileLists ==
    { fl \in UNION { [1..n -> FileStrings] : n \in 0..MaxMapFiles } :
         \A i, j \in DOMAIN fl : ~Beneath(fl[i].comps, fl[j].comps) }

\* selectedFiles: undefined, or an array of no file path or of one.
Selections ==
    { [given |-> FALSE, set |-> {}] }
    \cup { [given |-> TRUE, set |-> s] : s \in {{}} \cup { {f} : f \in FileStrings } }

RECURSIVE CommonLen(_, _)
CommonLen(a, b) ==
    IF a = <<>> \/ b = <<>> \/ Head(a) # Head(b)
    THEN 0
    ELSE 1 + CommonLen(Tail(a), Tail(b))

\* path.relative(from, to).split(path.sep): up from the first to the common
\* directory, then down to the second; the empty string splits into one empty part.
RelativeParts(from, to) ==
    LET k == CommonLen(from, to)
        rel == [i \in 1..(Len(from) - k) |-> ".."] \o SubSeq(to, k + 1, Len(to))
    IN  IF rel = <<>> THEN <<"">> ELSE rel

\* createTreeNode(name, isFile, isSelected); the name is the last part.
CreateTreeNode(parts, isFile, isSelected) ==
    [parts |-> parts, isFile |-> isFile, isSelected |-> isSelected]

NodeName(node) == node.parts[Len(node.parts)]

\* current.children.has(part) and .get(part), for the node at parts.
HasNode(tree, parts) == \E i \in DOMAIN tree : tree[i].parts = parts
NodeIndex(tree, parts) == CHOOSE i \in DOMAIN tree : tree[i].parts = parts

\* node.children, in insertion order.
ChildrenOf(tree, parts) ==
    LET IsChild(n) == Len(n.parts) = Len(parts) + 1 /\ IsPrefix(parts, n.parts)
    IN  SelectSeq(tree, IsChild)

\* isLast && (selectedFiles === undefined || selectedFiles.has(filePath))
IsSelected(isLast, selectedSet, filePath) ==
    isLast /\ (~selectedSet.given \/ filePath \in selectedSet.set)

\* A faulty variant: a node that exists takes the mark of the last insertion.
ReinsertedMarkOverwrites(was, isLast, isSelected) ==
    IF isLast THEN isSelected ELSE was

\* else if (isLast && isSelected) { current.children.get(part)!.isSelected = true; }
ReinsertedMark(was, isLast, isSelected) ==
    IF isLast /\ isSelected THEN TRUE ELSE was

\* buildTree, the inner loop over the parts of one file, from part i on.
RECURSIVE InsertParts(_, _, _, _, _)
InsertParts(tree, parts, i, filePath, selectedSet) ==
    IF i > Len(parts)
    THEN tree
    ELSE LET here == SubSeq(parts, 1, i)
             isLast == i = Len(parts)
             isSelected == IsSelected(isLast, selectedSet, filePath)
             next == IF ~HasNode(tree, here)
                     THEN Append(tree, CreateTreeNode(here, isLast, isSelected))
                     ELSE [tree EXCEPT ![NodeIndex(tree, here)].isSelected =
                                          ReinsertedMark(@, isLast, isSelected)]
         IN  InsertParts(next, parts, i + 1, filePath, selectedSet)

\* buildTree(files, workspaceRoot, selectedFiles): the nodes below the root.
RECURSIVE BuildTree(_, _, _)
BuildTree(files, workspaceRoot, selectedSet) ==
    IF files = <<>>
    THEN <<>>
    ELSE LET filePath == files[Len(files)]
         IN  InsertParts(BuildTree(SubSeq(files, 1, Len(files) - 1), workspaceRoot,
                                   selectedSet),
                         RelativeParts(workspaceRoot, filePath.comps), 1, filePath,
                         selectedSet)

Rank(name) == CHOOSE i \in DOMAIN NameOrder : NameOrder[i] = name

\* a.name.localeCompare(b.name)
LocaleCompare(x, y) ==
    IF Rank(x) < Rank(y) THEN -1 ELSE IF Rank(x) > Rank(y) THEN 1 ELSE 0

\* A faulty variant: the comparator looks at the names only.
CompareNodesByName(a, b) == LocaleCompare(NodeName(a), NodeName(b))

\* The comparator of sortChildren: directories first, then by name.
CompareNodes(a, b) ==
    IF ~a.isFile /\ b.isFile THEN -1
    ELSE IF a.isFile /\ ~b.isFile THEN 1
    ELSE LocaleCompare(NodeName(a), NodeName(b))

\* Array.prototype.sort with the comparator: a stable sort.
RECURSIVE InsertSorted(_, _)
InsertSorted(sorted, x) ==
    IF sorted = <<>>
    THEN <<x>>
    ELSE IF CompareNodes(Head(sorted), x) <= 0
    THEN <<Head(sorted)>> \o InsertSorted(Tail(sorted), x)
    ELSE <<x>> \o sorted

RECURSIVE SortChildren(_)
SortChildren(children) ==
    IF children = <<>>
    THEN <<>>
    ELSE InsertSorted(SortChildren(SubSeq(children, 1, Len(children) - 1)),
                      children[Len(children)])

Line(prefix, connector, name, marker) ==
    [prefix |-> prefix, connector |-> connector, name |-> name, marker |-> marker]

\* A line that is not a line of the tree.
Raw(text) == Line(<<>>, "", text, "")

\* lines.join("\n"), as the lines of the string it makes.
JoinLines(lines) == IF lines = <<>> THEN <<Raw("")>> ELSE lines

\* The empty string.
EmptyString == <<Raw("")>>

\* renderTree for a node that is not the root, and its loop over sorted children.
RECURSIVE RenderTree(_, _, _, _)
RECURSIVE RenderChildren(_, _, _)
RenderTree(tree, node, prefix, isLast) ==
    LET connector == IF isLast THEN "+-- " ELSE "|-- "
        marker == IF node.isSelected THEN " *" ELSE ""
        children == ChildrenOf(tree, node.parts)
        newPrefix == Append(prefix, IF isLast THEN "    " ELSE "|   ")
    IN  <<Line(prefix, connector, NodeName(node), marker)>>
        \o (IF Len(children) > 0
            THEN RenderChildren(tree, SortChildren(children), newPrefix)
            ELSE <<>>)

RenderChildren(tree, sortedChildren, prefix) ==
    IF sortedChildren = <<>>
    THEN <<>>
    ELSE RenderTree(tree, Head(sortedChildren), prefix, Len(sortedChildren) = 1)
         \o RenderChildren(tree, Tail(sortedChildren), prefix)

\* renderTree(tree, "", true, true, lines): the root renders its children only.
RenderRoot(tree) == RenderChildren(tree, SortChildren(ChildrenOf(tree, <<>>)), <<>>)

\* The first line of a tree: the path of the workspace root.
RootLine(workspacePath) == Raw(workspacePath[1])

\* The legend line of the single-root map (its parentheses written as brackets).
Legend == Raw("[* denotes selected files]")

generateFileMap(files, workspaceRoot, selectedFiles) ==
    IF Len(files) = 0
    THEN EmptyString
    ELSE LET tree == BuildTree(files, workspaceRoot, selectedFiles)
             lines == <<RootLine(workspaceRoot)>> \o RenderRoot(tree)
         IN  <<Raw("<file_map>")>> \o JoinLines(lines)
             \o <<Raw(""), Legend, Raw("</file_map>")>>

\* The for loop of generateFileMapMultiRoot: allLines.
RECURSIVE AllLines(_, _)
AllLines(entries, selectedSet) ==
    IF entries = <<>>
    THEN <<>>
    ELSE LET e == Head(entries)
             rest == AllLines(Tail(entries), selectedSet)
         IN  IF Len(e.files) = 0
             THEN rest
             ELSE <<RootLine(e.workspacePath)>>
                  \o RenderRoot(BuildTree(e.files, e.workspacePath, selectedSet))
                  \o <<Raw("")>> \o rest

generateFileMapMultiRoot(filesByWorkspace, selectedFiles) ==
    IF Len(filesByWorkspace) = 0
    THEN EmptyString
    ELSE LET allLines == AllLines(filesByWorkspace, selectedFiles)
             trimmed == IF Len(allLines) > 0 /\ allLines[Len(allLines)] = Raw("")
                        THEN SubSeq(allLines, 1, Len(allLines) - 1)
                        ELSE allLines
         IN  <<Raw("<file_map>")>> \o JoinLines(trimmed) \o <<Raw("</file_map>")>>

\* The files of a list, as files of the folder ws.
InWorkspace(files, ws) ==
    [i \in DOMAIN files |-> [files[i] EXCEPT !.comps = <<ws>> \o Tail(@)]]

\* The maps made of a list of files: some of the workspaces, in the order of
\* Workspaces, each with the files or with none.
WorkspaceMaps(files) ==
    { m \in UNION { [1..n -> [workspacePath : {<<Workspaces[k]>> : k \in DOMAIN Workspaces},
                              files : {<<>>} \cup {InWorkspace(files, Workspaces[k]) :
                                                      k \in DOMAIN Workspaces}]] :
                    n \in 0..Len(Workspaces) } :
         /\ \A i, j \in DOMAIN m :
               i < j => \E h, k \in DOMAIN Workspaces :
                           /\ h < k
                           /\ m[i].workspacePath = <<Workspaces[h]>>
                           /\ m[j].workspacePath = <<Workspaces[k]>>
         /\ \A i \in DOMAIN m :
               m[i].files \in {<<>>, InWorkspace(files, m[i].workspacePath[1])} }

RdIdle ==
    /\ rdFiles = <<>>
    /\ rdSelected = [given |-> FALSE, set |-> {}]
    /\ rdMap = <<>>
    /\ rdCall = "none"
    /\ rdOut = <<>>

InitRender ==
    /\ rdFiles \in FileLists
    /\ rdSelected \in Selections
    /\ rdMap = <<>>
    /\ rdCall = "none"
    /\ rdOut = <<>>

\* generateFileMap(files, "/w", selectedFiles) is called.
CallGenerateFileMap ==
    /\ rdCall = "none"
    /\ rdCall' = "single"
    /\ rdOut' = generateFileMap(rdFiles, <<"w">>, rdSelected)
    /\ UNCHANGED <<rdFiles, rdSelected, rdMap>>

\* generateFileMapMultiRoot(m, selectedFiles) is called.
CallGenerateFileMapMultiRoot(m) ==
    /\ rdCall = "none"
    /\ rdCall' = "multi"
    /\ rdMap' = m
    /\ rdOut' = generateFileMapMultiRoot(m, rdSelected)
    /\ UNCHANGED <<rdFiles, rdSelected>>

(***************************************************************************)
(* refreshAndUpdate: SettingsTreeProvider.ts 287-364.  An invocation runs  *)
(* up to its next await in one turn; it awaits resolveSelectedFiles, then  *)
(* countTokens, then (if the file map is on) generateFileMapSection.       *)
(* resolveSelectedFiles catches the failure of every collectFiles call     *)
(* (233-236) and countTokens that of every file, so both always resolve;   *)
(* generateFileMapSection awaits collectFiles with no catch                *)
(* (fileMapUtils.ts 38-43) when all the files are to be listed, and then   *)
(* rejects when a filesystem operation of the walk fails.                  *)
(*   pc   "resolve" | "count" | "map": the await the invocation is at,     *)
(*        "done": it wrote its final status, "stale": it returned at a     *)
(*        sequence check, "rejected": it was left by an exception.         *)
(***************************************************************************)
MaxRefreshes == 2
MaxResolved == 1

Invocations == DOMAIN refresh

\* A faulty variant: the controller in use is left alone.
AbortCurrentNot(ctrls, current) == ctrls

\* :289   try { currentAbort?.abort(); } catch {}
AbortCurrent(ctrls, current) ==
    IF current = 0 THEN ctrls ELSE [ctrls EXCEPT ![current].aborted = TRUE]

\* A faulty variant: no invocation takes itself for superseded.
SupersededNever(mySeq, seq) == FALSE

\* :315, 330, 347   if (mySeq !== refreshSeq) { return; }
Superseded(mySeq, seq) == mySeq # seq

\* :340   fileMapEnabled && (resolvedFiles.length > 0 || includeAllFiles)
WantsFileMap(inv) == inv.fileMapEnabled /\ (inv.filesCount > 0 \/ inv.includeAllFiles)

\* updateStatusBar(options), called by the invocation with sequence number mySeq
\* while refreshSeq is seq.
UpdateStatusBar(mySeq, seq, isCalculating) ==
    /\ statusBar' = [isCalculating |-> isCalculating, by |-> mySeq]
    /\ statusLog' = Append(statusLog, [by |-> mySeq, seq |-> seq,
                                       isCalculating |-> isCalculating])

\* A call that is handed currentAbort.signal, as currentAbort is at the call.
Handed(fn, mySeq, controller) == [fn |-> fn, by |-> mySeq, signal |-> controller]

RfIdle ==
    /\ hasWorkspace = FALSE
    /\ refreshSeq = 0
    /\ currentAbort = 0
    /\ controllers = <<>>
    /\ refresh = <<>>
    /\ statusBar = [isCalculating |-> FALSE, by |-> 0]
    /\ statusLog = <<>>
    /\ work = {}

InitRefresh ==
    /\ hasWorkspace \in BOOLEAN
    /\ refreshSeq = 0
    /\ currentAbort = 0
    /\ controllers = <<>>
    /\ refresh = <<>>
    /\ statusBar = [isCalculating |-> FALSE, by |-> 0]
    /\ statusLog = <<>>
    /\ work = {}

\* refreshAndUpdate() is invoked, with the settings as they are: lines 288-314.
RefreshAndUpdate(fileMapEnabled, includeAllFiles) ==
    /\ Len(refresh) < MaxRefreshes
    /\ LET mySeq == refreshSeq + 1
           inv == [mySeq |-> mySeq, pc |-> "resolve", fileMapEnabled |-> fileMapEnabled,
                   includeAllFiles |-> includeAllFiles, filesCount |-> 0,
                   own |-> Len(controllers) + 1]
       IN  /\ refreshSeq' = mySeq
           /\ controllers' = Append(AbortCurrent(controllers, currentAbort),
                                    [aborted |-> FALSE])
           /\ currentAbort' = Len(controllers) + 1
           /\ IF ~hasWorkspace
              THEN /\ UpdateStatusBar(mySeq, mySeq, FALSE)
                   /\ refresh' = Append(refresh, [inv EXCEPT !.pc = "done"])
                   /\ work' = work
              ELSE /\ UpdateStatusBar(mySeq, mySeq, TRUE)
                   /\ refresh' = Append(refresh, inv)
                   /\ work' = work \cup {Handed("resolveSelectedFiles", mySeq, currentAbort')}
    /\ UNCHANGED hasWorkspace

\* resolveSelectedFiles resolved with n files: lines 315-329.
ResolveCompletes(r, n) ==
    /\ refresh[r].pc = "resolve"
    /\ IF Superseded(refresh[r].mySeq, refreshSeq)
       THEN /\ refresh' = [refresh EXCEPT ![r].pc = "stale"]
            /\ UNCHANGED <<statusBar, statusLog, work>>
       ELSE /\ UpdateStatusBar(refresh[r].mySeq, refreshSeq, TRUE)
            /\ refresh' = [refresh EXCEPT ![r].pc = "count", ![r].filesCount = n]
            /\ work' = work \cup {Handed("countTokens", refresh[r].mySeq, currentAbort)}
    /\ UNCHANGED <<hasWorkspace, refreshSeq, currentAbort, controllers>>

\* countTokens resolved: lines 330-346, or to the end when no file map is wanted.
CountCompletes(r) ==
    /\ refresh[r].pc = "count"
    /\ IF Superseded(refresh[r].mySeq, refreshSeq)
       THEN /\ refresh' = [refresh EXCEPT ![r].pc = "stale"]
            /\ UNCHANGED <<statusBar, statusLog, work>>
       ELSE IF WantsFileMap(refresh[r])
       THEN /\ refresh' = [refresh EXCEPT ![r].pc = "map"]
            /\ work' = work \cup {Handed("generateFileMapSection", refresh[r].mySeq,
                                         currentAbort)}
            /\ UNCHANGED <<statusBar, statusLog>>
       ELSE /\ UpdateStatusBar(refresh[r].mySeq, refreshSeq, FALSE)
            /\ refresh' = [refresh EXCEPT ![r].pc = "done"]
            /\ work' = work
    /\ UNCHANGED <<hasWorkspace, refreshSeq, currentAbort, controllers>>

\* generateFileMapSection settled: lines 347-363.  It can reject only when it
\* walks the folders (includeAllFiles), and refreshAndUpdate has no try around it.
FileMapCompletes(r, ok) ==
    /\ refresh[r].pc = "map"
    /\ ~ok => refresh[r].includeAllFiles
    /\ IF ~ok
       THEN /\ refresh' = [refresh EXCEPT ![r].pc = "rejected"]
            /\ UNCHANGED <<statusBar, statusLog>>
       ELSE IF Superseded(refresh[r].mySeq, refreshSeq)
       THEN /\ refresh' = [refresh EXCEPT ![r].pc = "stale"]
            /\ UNCHANGED <<statusBar, statusLog>>
       ELSE /\ UpdateStatusBar(refresh[r].mySeq, refreshSeq, FALSE)
            /\ refresh' = [refresh EXCEPT ![r].pc = "done"]
    /\ UNCHANGED <<hasWorkspace, refreshSeq, currentAbort, controllers, work>>

(***************************************************************************)
(* The history of the files countTokens reads: a write gives the file the  *)
(* next mtime, so the contents a file had are a sequence indexed by mtime. *)
(***************************************************************************)
HistIdle == contentAt = <<>>

InitHistory == contentAt = [p \in TokPaths |-> <<disk[p].content>>]

\* Something outside writes content c to file p, and the history keeps it.
WriteFileRecorded(p, c) ==
    /\ WriteFile(p, c)
    /\ contentAt' = [contentAt EXCEPT ![p] = Append(@, c)]

(***************************************************************************)
(* The file map as the copy command builds it (src/unnamed/part_000 22-102)*)
(* and as generateFileMapSection builds it for the estimate of the status  *)
(* bar (fileMapUtils.ts 25-89).  Both walk the folders with collectFiles   *)
(* and the matcher of getIgnoreParser; the walk is an input of the model,  *)
(* the same for both, as on a filesystem that does not change.             *)
(***************************************************************************)
MaxListed == 2

\* The files of the model, by folder; a path is spelled in one way here.
MapFiles ==
    { FilePath(<<"w", "a">>, "plain"), FilePath(<<"w", "b", "a">>, "plain"),
      FilePath(<<"w", "b", "c">>, "plain"), FilePath(<<"v", "a">>, "plain") }

\* The order of the code units of the names.
CodeOrder == <<"a", "b", "c", "v", "w">>

CodeRank(name) == CHOOSE i \in DOMAIN CodeOrder : CodeOrder[i] = name

\* The default comparison of Array.prototype.sort on two paths: by code units,
\* which for names of one letter is the order of the components.
RECURSIVE CompsBefore(_, _)
CompsBefore(a, b) ==
    IF a = <<>> THEN b # <<>>
    ELSE IF b = <<>> THEN FALSE
    ELSE IF Head(a) # Head(b) THEN CodeRank(Head(a)) < CodeRank(Head(b))
    ELSE CompsBefore(Tail(a), Tail(b))

RECURSIVE InsertPath(_, _)
InsertPath(sorted, x) ==
    IF sorted = <<>>
    THEN <<x>>
    ELSE IF CompsBefore(x.comps, Head(sorted).comps)
    THEN <<x>> \o sorted
    ELSE <<Head(sorted)>> \o InsertPath(Tail(sorted), x)

\* files.sort()
RECURSIVE SortPaths(_)
SortPaths(files) ==
    IF files = <<>> THEN <<>>
    ELSE InsertPath(SortPaths(SubSeq(files, 1, Len(files) - 1)), files[Len(files)])

\* Array.from(new Set(files)): the first occurrence of every path, in order.
RECURSIVE Distinct(_)
Distinct(files) ==
    IF files = <<>> THEN <<>>
    ELSE LET before == Distinct(SubSeq(files, 1, Len(files) - 1))
             x == files[Len(files)]
         IN  IF x \in Range(before) THEN before ELSE Append(before, x)

\* A faulty variant: the selected files are not merged into the walked ones.
SectionFilesOfAllWalkOnly(walk, selectedFiles) == SortPaths(Distinct(walk))

\* fileMapUtils.ts 46-50: new Set(allFilesArrays.flat()), add every selected
\* file, Array.from(...).sort()
SectionFilesOfAll(walk, selectedFiles) == SortPaths(Distinct(walk \o selectedFiles))

\* part_000 70: allFilesArrays.flat().sort()
CopyFilesOfAll(walk) == SortPaths(walk)

\* getWorkspaceFolder(fileUri)?.uri.fsPath ?? workspaceFolders[0].uri.fsPath
WorkspaceKey(folders, file) ==
    IF file.comps[1] \in Range(folders) THEN <<file.comps[1]>> ELSE <<folders[1]>>

\* The two loops that group the files by folder: a Map, its entries in the
\* order in which the folders first occur in the list.
RECURSIVE GroupByWorkspace(_, _)
GroupByWorkspace(folders, files) ==
    IF files = <<>> THEN <<>>
    ELSE LET before == GroupByWorkspace(folders, SubSeq(files, 1, Len(files) - 1))
             x == files[Len(files)]
             key == WorkspaceKey(folders, x)
         IN  IF \E i \in DOMAIN before : before[i].workspacePath = key
             THEN [i \in DOMAIN before |->
                      IF before[i].workspacePath = key
                      THEN [before[i] EXCEPT !.files = Append(@, x)]
                      ELSE before[i]]
             ELSE Append(before, [workspacePath |-> key, files |-> <<x>>])

\* The rendering both share: part_000 79-101 and fileMapUtils.ts 61-86.
RenderFileMap(folders, fileMapFiles, marking) ==
    IF Len(folders) > 1
    THEN generateFileMapMultiRoot(GroupByWorkspace(folders, fileMapFiles), marking)
    ELSE generateFileMap(fileMapFiles, <<folders[1]>>, marking)

AllMarked == [given |-> FALSE, set |-> {}]

MarkingOf(selectedFiles) == [given |-> TRUE, set |-> Range(selectedFiles)]

\* generateFileMapSection(options), given what its walk returns.
FileMapSectionOf(folders, selectedFiles, includeAllFiles, walk) ==
    IF Len(folders) = 0
    THEN [fileMapSection |-> EmptyString, fileMapFiles |-> <<>>]
    ELSE LET fileMapFiles == IF includeAllFiles
                             THEN SectionFilesOfAll(walk, selectedFiles)
                             ELSE selectedFiles
             marking == IF includeAllFiles THEN MarkingOf(selectedFiles) ELSE AllMarked
         IN  IF Len(fileMapFiles) = 0
             THEN [fileMapSection |-> EmptyString, fileMapFiles |-> <<>>]
             ELSE [fileMapSection |-> RenderFileMap(folders, fileMapFiles, marking),
                   fileMapFiles |-> fileMapFiles]

\* The copy command up to its payload, given what its walk returns: built tells
\* whether it came to build a file map, files are those of <code_files>.
CopySelectedOf(folders, resolved, includeFileMap, fileMapIncludeAllFiles, walk) ==
    LET absoluteFiles == SortPaths(resolved)
        fileMapFiles == IF fileMapIncludeAllFiles THEN CopyFilesOfAll(walk)
                        ELSE absoluteFiles
        marking == IF fileMapIncludeAllFiles THEN MarkingOf(absoluteFiles) ELSE AllMarked
    IN  IF Len(folders) = 0 \/ Len(absoluteFiles) = 0
        THEN [called |-> TRUE, built |-> FALSE, fileMap |-> EmptyString, files |-> <<>>]
        ELSE IF ~includeFileMap
        THEN [called |-> TRUE, built |-> FALSE, fileMap |-> EmptyString,
              files |-> absoluteFiles]
        ELSE [called |-> TRUE, built |-> TRUE,
              fileMap |-> RenderFileMap(folders, fileMapFiles, marking),
              files |-> absoluteFiles]

\* Lists of at most MaxListed files of the folders, none twice.
ListsOfFiles(folders) ==
    { fl \in UNION { [1..n -> { f \in MapFiles : f.comps[1] \in Range(folders) }] :
                     n \in 0..MaxListed } :
         \A i, j \in DOMAIN fl : i # j => fl[i] # fl[j] }

FolderIndex(folders, file) == CHOOSE k \in DOMAIN folders : folders[k] = file.comps[1]

NotCopied == [called |-> FALSE, built |-> FALSE, fileMap |-> <<>>, files |-> <<>>]

NoSection == [called |-> FALSE, fileMapSection |-> <<>>, fileMapFiles |-> <<>>]

FmIdle ==
    /\ fmFolders = <<>>
    /\ fmResolved = <<>>
    /\ fmWalk = <<>>
    /\ fmIncludeAll = FALSE
    /\ fmCopy = NotCopied
    /\ fmSection = NoSection

\* One folder or two; the resolved files in any order; the walk lists the files
\* of the first folder before those of the second (allFilesArrays.flat()).
InitFileMap ==
    /\ fmFolders \in { <<"w">>, <<"w", "v">> }
    /\ fmResolved \in ListsOfFiles(fmFolders)
    /\ fmWalk \in { fl \in ListsOfFiles(fmFolders) :
                      \A i, j \in DOMAIN fl :
                         i < j => FolderIndex(fmFolders, fl[i]) <= FolderIndex(fmFolders, fl[j]) }
    /\ fmIncludeAll \in BOOLEAN
    /\ fmCopy = NotCopied
    /\ fmSection = NoSection

\* The command contextCraft.copySelected runs.
CopySelected(includeFileMap) ==
    /\ ~fmCopy.called
    /\ fmCopy' = CopySelectedOf(fmFolders, fmResolved, includeFileMap, fmIncludeAll, fmWalk)
    /\ UNCHANGED <<fmFolders, fmResolved, fmWalk, fmIncludeAll, fmSection>>

\* refreshAndUpdate calls generateFileMapSection (SettingsTreeProvider.ts 340-346).
GenerateFileMapSection ==
    /\ ~fmSection.called
    /\ Len(fmResolved) > 0 \/ fmIncludeAll
    /\ fmSection' = [called |-> TRUE] @@
                    FileMapSectionOf(fmFolders, fmResolved, fmIncludeAll, fmWalk)
    /\ UNCHANGED <<fmFolders, fmResolved, fmWalk, fmIncludeAll, fmCopy>>

(***************************************************************************)
(* The settings: SettingsTreeProvider.ts 93-142 (showFileMapModeQuickPick, *)
(* toggleShowIgnoredFiles) and their wiring in activate (366, 395-445,     *)
(* 520-545).  A Set is the sequence of its members in insertion order.     *)
(* The matcher of the folder is a set of candidates, as for collectFiles.  *)
(* debounce (./debounce) and toggleSelection (./selectionLogic) are not in *)
(* the sources at hand: debounce(fn, 200) is taken to call fn once, some   *)
(* time after the last call of the debounced function; toggleSelection to  *)
(* add the path of the element to checkedPaths or to delete it.            *)
(*   toggle.pc  "idle" | "persist" (the await of line 133) | "parser" (the *)
(*              await of getIgnoreParser, line 419, for toggle.current) |  *)
(*              "persistSelection" (the await of line 439)                 *)
(*   pick.pc    "idle" | "picking" (the await of showQuickPick) |          *)
(*              "persist" (the await of line 108)                          *)
(***************************************************************************)
MaxUserActions == 3

FileMapModes == {"disabled", "selected", "all"}

\* The paths of the tree: a directory the matcher ignores (as "a/"), a file it
\* ignores, and a file it does not.
SelectablePaths == { <<"w", "a">>, <<"w", "b">>, <<"w", "c">> }

FolderMatcher == { << <<"a">>, "/" >>, << <<"b">>, "" >> }

\* Set.add and Set.delete
SetAdd(members, x) == IF x \in Range(members) THEN members ELSE Append(members, x)

SetDelete(members, x) ==
    LET Other(y) == y # x
    IN  SelectSeq(members, Other)

RECURSIVE SetDeleteAll(_, _)
SetDeleteAll(members, xs) ==
    IF xs = {} THEN members
    ELSE LET x == CHOOSE y \in xs : TRUE
         IN  SetDeleteAll(SetDelete(members, x), xs \ {x})

\* A faulty variant: the path is tested as a file only.
IsIgnoredAsFileOnly(parser, relativePath) ==
    relativePath # <<>> /\ Ignores(parser, <<relativePath, "">>)

\* lines 423-426: relativePath !== "" && (ignores(relativePath) || ignores(relativePath + "/"))
IsIgnored(parser, relativePath) ==
    /\ relativePath # <<>>
    /\ \/ Ignores(parser, <<relativePath, "">>)
       \/ Ignores(parser, <<relativePath, "/">>)

IdleToggle == [pc |-> "idle", wasEnabled |-> FALSE, current |-> <<>>, visited |-> {},
               pathsToRemove |-> {}]

IdlePick == [pc |-> "idle"]

StIdle ==
    /\ fileMapMode = "selected"
    /\ showIgnoredFiles = FALSE
    /\ checkedPaths = <<>>
    /\ treeShowsIgnored = FALSE
    /\ toggle = IdleToggle
    /\ pick = IdlePick
    /\ debounceTimer = FALSE
    /\ unaccounted = FALSE
    /\ toggleLog = <<>>
    /\ userActions = 0

\* activate: the settings are read from the workspace state (lines 44-45), the
\* selection is empty, the tree lists what the setting says and the first
\* refreshAndUpdate has been made.
InitSettings ==
    /\ fileMapMode \in FileMapModes
    /\ showIgnoredFiles \in BOOLEAN
    /\ checkedPaths = <<>>
    /\ treeShowsIgnored = showIgnoredFiles
    /\ toggle = IdleToggle
    /\ pick = IdlePick
    /\ debounceTimer = FALSE
    /\ unaccounted = FALSE
    /\ toggleLog = <<>>
    /\ userActions = 0

\* The command contextCraft.selectFileMapMode: lines 94-104, up to the await.
ShowFileMapModeQuickPick ==
    /\ pick.pc = "idle"
    /\ userActions < MaxUserActions
    /\ userActions' = userActions + 1
    /\ pick' = [pc |-> "picking"]
    /\ UNCHANGED <<fileMapMode, showIgnoredFiles, checkedPaths, treeShowsIgnored, toggle,
                   debounceTimer, unaccounted, toggleLog>>

\* The user picks a mode or dismisses the list: lines 106-108.
QuickPickReturns(selected) ==
    /\ pick.pc = "picking"
    /\ IF selected = "none"
       THEN /\ pick' = IdlePick
            /\ UNCHANGED <<fileMapMode, unaccounted>>
       ELSE /\ fileMapMode' = selected
            /\ unaccounted' = (unaccounted \/ selected # fileMapMode)
            /\ pick' = [pc |-> "persist"]
    /\ UNCHANGED <<showIgnoredFiles, checkedPaths, treeShowsIgnored, toggle, debounceTimer,
                   toggleLog, userActions>>

\* workspaceState.update of line 108 completes: lines 109-110, the change event
\* of the settings tree and onSettingChangedCallback, the debounced refresh.
ModePersisted ==
    /\ pick.pc = "persist"
    /\ pick' = IdlePick
    /\ debounceTimer' = TRUE
    /\ UNCHANGED <<fileMapMode, showIgnoredFiles, checkedPaths, treeShowsIgnored, toggle,
                   unaccounted, toggleLog, userActions>>

\* The timer of debounce runs out: refreshAndUpdate is called and reads the
\* settings and the selection (lines 300-301, 190, 210).
DebounceFires ==
    /\ debounceTimer
    /\ debounceTimer' = FALSE
    /\ unaccounted' = FALSE
    /\ UNCHANGED <<fileMapMode, showIgnoredFiles, checkedPaths, treeShowsIgnored, toggle,
                   pick, toggleLog, userActions>>

\* The command contextCraft.toggleShowIgnoredFiles: lines 131-133, up to the await.
ToggleShowIgnoredFiles ==
    /\ toggle.pc = "idle"
    /\ userActions < MaxUserActions
    /\ userActions' = userActions + 1
    /\ showIgnoredFiles' = ~showIgnoredFiles
    /\ unaccounted' = TRUE
    /\ toggle' = [IdleToggle EXCEPT !.pc = "persist", !.wasEnabled = showIgnoredFiles]
    /\ toggleLog' = <<>>
    /\ UNCHANGED <<fileMapMode, checkedPaths, treeShowsIgnored, pick, debounceTimer>>

\* lines 140-141: the change event of the settings tree, and the callback of
\* line 403, clearCacheAndRefresh: the tree is drawn again under the setting.
ToggleReturns(log) ==
    /\ toggle' = IdleToggle
    /\ toggleLog' = log \o <<"treeEvent", "changedCallback">>
    /\ treeShowsIgnored' = showIgnoredFiles

\* The first member of the Set the for-of loop has not visited, <<>> if none.
NextToVisit(members, visited) ==
    LET Left(x) == x \notin visited
        left == SelectSeq(members, Left)
    IN  IF left = <<>> THEN <<>> ELSE left[1]

\* The loop of lines 414-431 from its next member on, up to the await of
\* getIgnoreParser; when it is over, lines 434-439 up to the await of the
\* update, or, with nothing to remove, the return of the callback.
CleanupGoesOn(visited, pathsToRemove) ==
    LET next == NextToVisit(checkedPaths, visited)
    IN  IF next # <<>>
        THEN /\ toggle' = [toggle EXCEPT !.pc = "parser", !.current = next,
                                         !.visited = visited,
                                         !.pathsToRemove = pathsToRemove]
             /\ UNCHANGED <<checkedPaths, toggleLog, treeShowsIgnored>>
        ELSE IF pathsToRemove # {}
        THEN /\ checkedPaths' = SetDeleteAll(checkedPaths, pathsToRemove)
             /\ toggle' = [toggle EXCEPT !.pc = "persistSelection", !.visited = visited,
                                         !.pathsToRemove = pathsToRemove]
             /\ toggleLog' = Append(toggleLog, "removed")
             /\ UNCHANGED treeShowsIgnored
        ELSE /\ ToggleReturns(toggleLog)
             /\ UNCHANGED checkedPaths

\* workspaceState.update of line 133 completes: lines 136-141.
TogglePersisted ==
    /\ toggle.pc = "persist"
    /\ IF toggle.wasEnabled /\ ~showIgnoredFiles
       THEN CleanupGoesOn({}, {})
       ELSE /\ ToggleReturns(toggleLog)
            /\ UNCHANGED checkedPaths
    /\ UNCHANGED <<fileMapMode, showIgnoredFiles, pick, debounceTimer, unaccounted,
                   userActions>>

\* getIgnoreParser of line 419 returns for toggle.current: lines 420-431.
CleanupParserReturns ==
    /\ toggle.pc = "parser"
    /\ LET checkedPath == toggle.current
           relativePath == Rel(Root, checkedPath)
       IN  CleanupGoesOn(toggle.visited \cup {checkedPath},
                         IF IsIgnored(FolderMatcher, relativePath)
                         THEN toggle.pathsToRemove \cup {checkedPath}
                         ELSE toggle.pathsToRemove)
    /\ UNCHANGED <<fileMapMode, showIgnoredFiles, pick, debounceTimer, unaccounted,
                   userActions>>

\* workspaceState.update of line 439 completes: the callback returns, 140-141.
SelectionPersisted ==
    /\ toggle.pc = "persistSelection"
    /\ ToggleReturns(toggleLog)
    /\ UNCHANGED <<fileMapMode, showIgnoredFiles, checkedPaths, pick, debounceTimer,
                   unaccounted, userActions>>

\* An entry the tree on screen lists.
Listed(p) == treeShowsIgnored \/ ~IsIgnored(FolderMatcher, Rel(Root, p))

\* The user ticks or clears the checkbox of a listed entry: lines 520-545,
\* toggleSelection and then, in the finally block, refreshAndUpdate.
ChangeCheckbox(p, checked) ==
    /\ Listed(p)
    /\ userActions < MaxUserActions
    /\ userActions' = userActions + 1
    /\ checkedPaths' = IF checked THEN SetAdd(checkedPaths, p) ELSE SetDelete(checkedPaths, p)
    /\ unaccounted' = FALSE
    /\ UNCHANGED <<fileMapMode, showIgnoredFiles, treeShowsIgnored, toggle, pick,
                   debounceTimer, toggleLog>>

(***************************************************************************)
(* The tree provider: FileTreeProvider.ts 14-119, the handlers of the file *)
(* watcher, getChildren of a directory and shouldIgnoreWatcherEvent.  A    *)
(* path is the sequence of its segments below "/"; fsPath.split(path.sep)  *)
(* gives the empty string before the first separator and then these.  A    *)
(* Map is a function on its keys (the order of the keys is never used).    *)
(* A listing is the set of its uris: sortUris orders it by kind and name,  *)
(* which is a function of the set.  The matcher is a set of candidates.    *)
(*   treeCall[i].pc  "idle" | "parser" (the await of getIgnoreParser, line *)
(*                   96) | "listing" (readDirectory of line 98 is issued)  *)
(*                   | "listed" (the directory was read, the answer is on  *)
(*                   its way)                                              *)
(***************************************************************************)
MaxTreeCalls == 1

MaxDiskOps == 2

TreeCallIds == 1..MaxTreeCalls

TreeRoot == <<"w">>

TreeDirectories == { <<"w", "src">>, <<"w", "dist">> }

TreeFiles == { <<"w", "src", "x">>, <<"w", "src", "out">>, <<"w", "dist", "z">> }

\* The .gitignore of the folder ignores src/x.
TreeMatcher == { << <<"src", "x">>, "" >> }

EventTypes == {"create", "delete", "change"}

\* path.dirname
Dirname(fsPath) == SubSeq(fsPath, 1, Len(fsPath) - 1)

\* fsPath.split(path.sep)
SplitPath(fsPath) == <<"">> \o fsPath

MapDeleteKey(m, k) == [x \in (DOMAIN m) \ {k} |-> m[x]]

MapSetKey(m, k, v) == [x \in (DOMAIN m) \cup {k} |-> IF x = k THEN v ELSE m[x]]

EmptyMap == [x \in {} |-> 0]

\* line 117
ignoredDirs == {".git", "node_modules", ".vscode", "dist", "build", "out", "target",
                ".next", ".nuxt"}

\* A faulty variant: the name of the entry itself is not looked at.
ShouldIgnoreDirectoriesOnly(uri) ==
    LET pathSegments == SplitPath(Dirname(uri))
    IN  \E i \in 1..Len(pathSegments) : pathSegments[i] \in ignoredDirs

\* shouldIgnoreWatcherEvent, lines 115-119
shouldIgnoreWatcherEvent(uri) ==
    LET pathSegments == SplitPath(uri)
    IN  \E i \in 1..Len(pathSegments) : pathSegments[i] \in ignoredDirs

\* readDirectory: the entries of a directory that exist
EntriesOf(files, element) == {f \in files : Dirname(f) = element}

\* lines 100-109: the entries the matcher lets through, or all of them
VisibleChildren(children, parser, show) ==
    {candidate \in children :
        show \/ ~Ignores(parser, <<Rel(TreeRoot, candidate), "">>)}

IdleTreeCall == [pc |-> "idle", element |-> <<>>, showIgnored |-> FALSE, children |-> {},
                 returned |-> {}]

FtIdle ==
    /\ treeFiles = {}
    /\ kindCache = <<>>
    /\ childrenCache = <<>>
    /\ showIgnored = FALSE
    /\ treeCall = <<>>
    /\ watcherEvents = {}
    /\ refreshTimer = FALSE
    /\ eventsIgnored = FALSE
    /\ diskOps = 0

\* The provider is constructed (lines 9-10, 14-45) over an empty folder or a
\* full one.
InitTree ==
    /\ treeFiles \in {{}, TreeFiles}
    /\ kindCache = EmptyMap
    /\ childrenCache = EmptyMap
    /\ showIgnored \in BOOLEAN
    /\ treeCall = [i \in TreeCallIds |-> IdleTreeCall]
    /\ watcherEvents = {}
    /\ refreshTimer = FALSE
    /\ eventsIgnored = FALSE
    /\ diskOps = 0

\* Something creates, deletes or rewrites a file; the watcher will tell.
ChangeFiles(type, uri) ==
    /\ diskOps < MaxDiskOps
    /\ diskOps' = diskOps + 1
    /\ CASE type = "create" -> uri \notin treeFiles /\ treeFiles' = treeFiles \cup {uri}
         [] type = "delete" -> uri \in treeFiles /\ treeFiles' = treeFiles \ {uri}
         [] type = "change" -> uri \in treeFiles /\ treeFiles' = treeFiles
    /\ watcherEvents' = watcherEvents \cup {[type |-> type, uri |-> uri]}
    /\ UNCHANGED <<kindCache, childrenCache, showIgnored, treeCall, refreshTimer,
                   eventsIgnored>>

\* onDidCreate, onDidDelete (lines 23-37) and onDidChange (38-44)
DeliverEvent(event) ==
    /\ event \in watcherEvents
    /\ watcherEvents' = watcherEvents \ {event}
    /\ eventsIgnored' = (eventsIgnored \/ shouldIgnoreWatcherEvent(event.uri))
    /\ IF shouldIgnoreWatcherEvent(event.uri)
       THEN UNCHANGED <<kindCache, childrenCache, refreshTimer>>
       ELSE /\ kindCache' =
                 IF event.type = "change"
                 THEN MapDeleteKey(kindCache, event.uri)
                 ELSE MapDeleteKey(MapDeleteKey(kindCache, event.uri), Dirname(event.uri))
            /\ childrenCache' =
                 IF event.type = "change"
                 THEN MapDeleteKey(childrenCache, Dirname(event.uri))
                 ELSE MapDeleteKey(MapDeleteKey(childrenCache, event.uri),
                                   Dirname(event.uri))
            /\ refreshTimer' = TRUE
    /\ UNCHANGED <<treeFiles, showIgnored, treeCall, diskOps>>

\* The timer of debounce runs out: refreshAndUpdate is called.
TreeRefreshFires ==
    /\ refreshTimer
    /\ refreshTimer' = FALSE
    /\ UNCHANGED <<treeFiles, kindCache, childrenCache, showIgnored, treeCall,
                   watcherEvents, eventsIgnored, diskOps>>

\* getChildren(element), lines 57 and 86-96: the cached children, or the
\* await of getIgnoreParser.
GetChildren(i, element) ==
    /\ treeCall[i].pc = "idle"
    /\ IF element \in DOMAIN childrenCache
       THEN treeCall' = [treeCall EXCEPT ![i] =
                [IdleTreeCall EXCEPT !.element = element, !.showIgnored = showIgnored,
                                     !.returned = childrenCache[element]]]
       ELSE treeCall' = [treeCall EXCEPT ![i] =
                [IdleTreeCall EXCEPT !.pc = "parser", !.element = element,
                                     !.showIgnored = showIgnored]]
    /\ UNCHANGED <<treeFiles, kindCache, childrenCache, showIgnored, watcherEvents,
                   refreshTimer, eventsIgnored, diskOps>>

\* getIgnoreParser returns: readDirectory is called, line 98.
TreeParserReturns(i) ==
    /\ treeCall[i].pc = "parser"
    /\ treeCall' = [treeCall EXCEPT ![i].pc = "listing"]
    /\ UNCHANGED <<treeFiles, kindCache, childrenCache, showIgnored, watcherEvents,
                   refreshTimer, eventsIgnored, diskOps>>

\* The file system reads the directory.
DirectoryRead(i) ==
    /\ treeCall[i].pc = "listing"
    /\ treeCall' = [treeCall EXCEPT ![i].pc = "listed",
                                    ![i].children = EntriesOf(treeFiles, treeCall[i].element)]
    /\ UNCHANGED <<treeFiles, kindCache, childrenCache, showIgnored, watcherEvents,
                   refreshTimer, eventsIgnored, diskOps>>

\* kindCache.set for every visible child, lines 100-109
RECURSIVE SetKinds(_, _)
SetKinds(kinds, visible) ==
    IF visible = {} THEN kinds
    ELSE LET candidate == CHOOSE c \in visible : TRUE
         IN  SetKinds(MapSetKey(kinds, candidate, "File"), visible \ {candidate})

\* readDirectory returns: lines 99-112.
GetChildrenReturns(i) ==
    /\ treeCall[i].pc = "listed"
    /\ LET call == treeCall[i]
           sorted == VisibleChildren(call.children, TreeMatcher, call.showIgnored)
       IN  /\ kindCache' = SetKinds(kindCache, sorted)
           /\ childrenCache' = MapSetKey(childrenCache, call.element, sorted)
           /\ treeCall' = [treeCall EXCEPT ![i].pc = "idle", ![i].returned = sorted]
    /\ UNCHANGED <<treeFiles, showIgnored, watcherEvents, refreshTimer, eventsIgnored, diskOps>>

(***************************************************************************)
(* The specifications.                                                     *)
(***************************************************************************)
Init == InitCollect /\ LimIdle /\ TokIdle /\ EvIdle /\ IgnIdle /\ RdIdle /\ RfIdle /\ HistIdle /\ FmIdle /\ StIdle /\ FtIdle

Next ==
    \/ \E c \in Calls : CollectFiles(c) /\ UNCHANGED notCol
    \/ \E c \in Calls : \E ok \in BOOLEAN :
          FsCompletes(c, ok) /\ UNCHANGED notCol
    \/ Abort /\ UNCHANGED notCol

Spec == Init /\ [][Next]_vars

\* Every filesystem operation that was started completes, by success or by failure.
FairSpec ==
    Spec /\ \A c \in Calls :
        WF_vars(\E ok \in BOOLEAN : FsCompletes(c, ok) /\ UNCHANGED notCol)

LimitInit == InitLimit /\ ColIdle /\ TokIdle /\ EvIdle /\ IgnIdle /\ RdIdle /\ RfIdle /\ HistIdle /\ FmIdle /\ StIdle /\ FtIdle

LimitNext ==
    \/ \E t \in Tasks : Limit(t) /\ UNCHANGED notLim
    \/ \E t \in Tasks : \E o \in {"ok", "err"} :
          RunSettles(t, o) /\ UNCHANGED notLim

SpecLimit == LimitInit /\ [][LimitNext]_vars

\* Every task that was started settles, by success or by failure.
FairSpecLimit ==
    SpecLimit /\ \A t \in Tasks :
        WF_vars(\E o \in {"ok", "err"} : RunSettles(t, o) /\ UNCHANGED notLim)

\* countTokens on two files that nobody writes.
TokensInit ==
    InitTokens(<<"p1", "p2">>, 1..MaxTokConcurrency) /\ LimIdle /\ ColIdle /\ EvIdle /\ IgnIdle /\ RdIdle /\ RfIdle /\ HistIdle /\ FmIdle /\ StIdle /\ FtIdle

TokensNext ==
    \/ CountTokens /\ UNCHANGED notTok
    \/ \E i \in TaskIds : \E ok \in BOOLEAN :
          StatCompletes(i, ok) /\ UNCHANGED notTok
    \/ \E i \in TaskIds : \E ok \in BOOLEAN :
          BinaryStatCompletes(i, ok) /\ UNCHANGED notTok
    \/ \E i \in TaskIds : \E ok \in BOOLEAN :
          BinaryReadCompletes(i, ok) /\ UNCHANGED notTok
    \/ \E i \in TaskIds : \E ok \in BOOLEAN :
          ReadFileCompletes(i, ok) /\ UNCHANGED notTok
    \/ TokAbort /\ UNCHANGED notTok

SpecTokens == TokensInit /\ [][TokensNext]_vars

\* countTokens on one file, while the copy command asks isBinary about it and
\* something outside writes it; with one task the bound of limit plays no part.
CacheInit ==
    InitTokens(<<WrittenPath>>, {MaxTokConcurrency}) /\ LimIdle /\ ColIdle /\ EvIdle /\ IgnIdle /\ RdIdle /\ RfIdle /\ HistIdle /\ FmIdle /\ StIdle /\ FtIdle

CacheNext ==
    \/ CountTokens /\ UNCHANGED notTok
    \/ \E i \in TaskIds : \E ok \in BOOLEAN :
          StatCompletes(i, ok) /\ UNCHANGED notTok
    \/ \E i \in TaskIds : \E ok \in BOOLEAN :
          BinaryStatCompletes(i, ok) /\ UNCHANGED notTok
    \/ \E i \in TaskIds : \E ok \in BOOLEAN :
          BinaryReadCompletes(i, ok) /\ UNCHANGED notTok
    \/ \E i \in TaskIds : \E ok \in BOOLEAN :
          ReadFileCompletes(i, ok) /\ UNCHANGED notTok
    \/ IsBinary(WrittenPath) /\ UNCHANGED notTok
    \/ \E ok \in BOOLEAN : IsBinaryStatCompletes(ok) /\ UNCHANGED notTok
    \/ \E ok \in BOOLEAN : IsBinaryReadCompletes(ok) /\ UNCHANGED notTok
    \/ \E c \in Contents : WriteFile(WrittenPath, c) /\ UNCHANGED notTok
    \/ TokAbort /\ UNCHANGED notTok

SpecCache == CacheInit /\ [][CacheNext]_vars

\* collectFiles called twice with the same arguments, each call with a counter of
\* its own, on a filesystem that answers every operation and a token nobody
\* signals; the calls may overlap.
TwiceInit ==
    /\ InitCollectWith({f \in [Calls -> {Root, <<"w", "a">>}] : f["c1"] = f["c2"]},
                       FALSE, {ListNames, Reverse(ListNames)})
    /\ LimIdle /\ TokIdle /\ EvIdle /\ IgnIdle /\ RdIdle /\ RfIdle /\ HistIdle /\ FmIdle /\ StIdle /\ FtIdle

TwiceNext ==
    \/ \E c \in Calls : CollectFiles(c) /\ UNCHANGED notCol
    \/ \E c \in Calls : FsCompletes(c, TRUE) /\ UNCHANGED notCol

SpecTwice == TwiceInit /\ [][TwiceNext]_vars

EvictInit == InitEvict /\ LimIdle /\ ColIdle /\ TokIdle /\ IgnIdle /\ RdIdle /\ RfIdle /\ HistIdle /\ FmIdle /\ StIdle /\ FtIdle

EvictNext ==
    \/ \E k \in EvictKeys : CacheInsert(k) /\ UNCHANGED notEv
    \/ \E k \in EvictKeys : CacheRead(k) /\ UNCHANGED notEv

SpecEvict == EvictInit /\ [][EvictNext]_vars

IgnoreInit == InitIgnore /\ LimIdle /\ ColIdle /\ TokIdle /\ EvIdle /\ RdIdle /\ RfIdle /\ HistIdle /\ FmIdle /\ StIdle /\ FtIdle

IgnoreNext ==
    \/ \E g \in IgnCalls : GetIgnoreParser(g) /\ UNCHANGED notIgn
    \/ \E g \in IgnCalls : \E ok \in BOOLEAN : IgnoreStatCompletes(g, ok) /\ UNCHANGED notIgn
    \/ \E g \in IgnCalls : \E ok \in BOOLEAN : IgnoreReadCompletes(g, ok) /\ UNCHANGED notIgn
    \/ \E c \in IgnoreFiles : WriteGitIgnore(c) /\ UNCHANGED notIgn
    \/ DeleteGitIgnore /\ UNCHANGED notIgn

SpecIgnore == IgnoreInit /\ [][IgnoreNext]_vars

\* The file map of a list of files, of one workspace folder or of several.
RenderInit == InitRender /\ LimIdle /\ ColIdle /\ TokIdle /\ EvIdle /\ IgnIdle /\ RfIdle /\ HistIdle /\ FmIdle /\ StIdle /\ FtIdle

RenderNext ==
    \/ CallGenerateFileMap /\ UNCHANGED notRd
    \/ \E m \in WorkspaceMaps(rdFiles) : CallGenerateFileMapMultiRoot(m) /\ UNCHANGED notRd

SpecRender == RenderInit /\ [][RenderNext]_vars

\* refreshAndUpdate invoked again and again while earlier invocations are at an await.
RefreshInit ==
    InitRefresh /\ LimIdle /\ ColIdle /\ TokIdle /\ EvIdle /\ IgnIdle /\ RdIdle /\ HistIdle /\ FmIdle /\ StIdle /\ FtIdle

RefreshNext ==
    \/ \E fileMapEnabled, includeAllFiles \in BOOLEAN :
          RefreshAndUpdate(fileMapEnabled, includeAllFiles) /\ UNCHANGED notRf
    \/ \E r \in Invocations : \E n \in 0..MaxResolved :
          ResolveCompletes(r, n) /\ UNCHANGED notRf
    \/ \E r \in Invocations : CountCompletes(r) /\ UNCHANGED notRf
    \/ \E r \in Invocations : \E ok \in BOOLEAN :
          FileMapCompletes(r, ok) /\ UNCHANGED notRf

SpecRefresh == RefreshInit /\ [][RefreshNext]_vars

\* Every awaited call settles: its filesystem operations complete, by success or
\* by failure.
FairSpecRefresh ==
    /\ SpecRefresh
    /\ WF_vars(\E r \in Invocations : \E n \in 0..MaxResolved :
                  ResolveCompletes(r, n) /\ UNCHANGED notRf)
    /\ WF_vars(\E r \in Invocations : CountCompletes(r) /\ UNCHANGED notRf)
    /\ WF_vars(\E r \in Invocations : \E ok \in BOOLEAN :
                  FileMapCompletes(r, ok) /\ UNCHANGED notRf)

\* resolveSelectedFiles with two workspace folders, each selected as a whole:
\* one collectFiles call per folder, each folder with the capCounter of its own
\* (SettingsTreeProvider.ts 222), all through the one fsLimit and under the one
\* token.  The two folders hold the same tree; call c walks the folder c.
RootsInit ==
    /\ InitCollectWith([Calls -> {Root}], FALSE, {ListNames})
    /\ LimIdle /\ TokIdle /\ EvIdle /\ IgnIdle /\ RdIdle /\ RfIdle /\ HistIdle /\ FmIdle /\ StIdle /\ FtIdle

RootsNext ==
    \/ \E c \in Calls : CollectFiles(c) /\ UNCHANGED notCol
    \/ \E c \in Calls : \E ok \in BOOLEAN :
          FsCompletes(c, ok) /\ UNCHANGED notCol
    \/ Abort /\ UNCHANGED notCol

SpecRoots == RootsInit /\ [][RootsNext]_vars

\* countTokens called again and again on one file that something outside
\* writes, the history keeping every content the file had.
HistoryInit ==
    /\ InitTokens(<<WrittenPath>>, {MaxTokConcurrency})
    /\ InitHistory
    /\ LimIdle /\ ColIdle /\ EvIdle /\ IgnIdle /\ RdIdle /\ RfIdle /\ FmIdle /\ StIdle /\ FtIdle

notTokHist == <<limVars, colVars, evVars, ignVars, rdVars, rfVars, fmVars, stVars, ftVars>>

HistoryNext ==
    \/ CountTokens /\ UNCHANGED notTok
    \/ \E i \in TaskIds : \E ok \in BOOLEAN :
          StatCompletes(i, ok) /\ UNCHANGED notTok
    \/ \E i \in TaskIds : \E ok \in BOOLEAN :
          BinaryStatCompletes(i, ok) /\ UNCHANGED notTok
    \/ \E i \in TaskIds : \E ok \in BOOLEAN :
          BinaryReadCompletes(i, ok) /\ UNCHANGED notTok
    \/ \E i \in TaskIds : \E ok \in BOOLEAN :
          ReadFileCompletes(i, ok) /\ UNCHANGED notTok
    \/ \E c \in Contents : WriteFileRecorded(WrittenPath, c) /\ UNCHANGED notTokHist

SpecHistory == HistoryInit /\ [][HistoryNext]_vars

\* The copy command and the estimate of the status bar build their file maps
\* of the same folders, resolved files, setting and filesystem.
FileMapInit ==
    InitFileMap /\ LimIdle /\ ColIdle /\ TokIdle /\ EvIdle /\ IgnIdle /\ RdIdle /\ RfIdle /\ HistIdle /\ StIdle /\ FtIdle

FileMapNext ==
    \/ \E includeFileMap \in BOOLEAN : CopySelected(includeFileMap) /\ UNCHANGED notFm
    \/ GenerateFileMapSection /\ UNCHANGED notFm

SpecFileMap == FileMapInit /\ [][FileMapNext]_vars

\* The user changes the settings and the selection, one toggle at a time.
SettingsInit ==
    InitSettings /\ LimIdle /\ ColIdle /\ TokIdle /\ EvIdle /\ IgnIdle /\ RdIdle /\ RfIdle /\ HistIdle /\ FmIdle /\ FtIdle

SettingsNext ==
    \/ ShowFileMapModeQuickPick /\ UNCHANGED notSt
    \/ \E selected \in FileMapModes \cup {"none"} : QuickPickReturns(selected) /\ UNCHANGED notSt
    \/ ModePersisted /\ UNCHANGED notSt
    \/ DebounceFires /\ UNCHANGED notSt
    \/ ToggleShowIgnoredFiles /\ UNCHANGED notSt
    \/ TogglePersisted /\ UNCHANGED notSt
    \/ CleanupParserReturns /\ UNCHANGED notSt
    \/ SelectionPersisted /\ UNCHANGED notSt
    \/ \E p \in SelectablePaths : \E checked \in BOOLEAN :
          ChangeCheckbox(p, checked) /\ UNCHANGED notSt

SpecSettings == SettingsInit /\ [][SettingsNext]_vars

\* Every await of the extension completes and the timer of debounce runs out;
\* the user is not bound to do anything.
FairSpecSettings ==
    /\ SpecSettings
    /\ WF_vars(ModePersisted /\ UNCHANGED notSt)
    /\ WF_vars(DebounceFires /\ UNCHANGED notSt)
    /\ WF_vars(TogglePersisted /\ UNCHANGED notSt)
    /\ WF_vars(CleanupParserReturns /\ UNCHANGED notSt)
    /\ WF_vars(SelectionPersisted /\ UNCHANGED notSt)

\* The tree asks for the children of directories while files change and the
\* watcher delivers its events.
TreeInit ==
    InitTree /\ LimIdle /\ ColIdle /\ TokIdle /\ EvIdle /\ IgnIdle /\ RdIdle /\ RfIdle /\ HistIdle /\ FmIdle /\ StIdle

TreeNext ==
    \/ \E type \in EventTypes : \E uri \in TreeFiles : ChangeFiles(type, uri) /\ UNCHANGED notFt
    \/ \E event \in watcherEvents : DeliverEvent(event) /\ UNCHANGED notFt
    \/ TreeRefreshFires /\ UNCHANGED notFt
    \/ \E i \in TreeCallIds : \E element \in TreeDirectories :
          GetChildren(i, element) /\ UNCHANGED notFt
    \/ \E i \in TreeCallIds : TreeParserReturns(i) /\ UNCHANGED notFt
    \/ \E i \in TreeCallIds : DirectoryRead(i) /\ UNCHANGED notFt
    \/ \E i \in TreeCallIds : GetChildrenReturns(i) /\ UNCHANGED notFt

SpecTree == TreeInit /\ [][TreeNext]_vars

(***************************************************************************)
(* The claims.                                                             *)
(***************************************************************************)
\* The segments of a path below the workspace folder.
BelowRoot(u) == SubSeq(u, 2, Len(u))

Settled(c) == callState[c] \in {"resolved", "rejected"}

\* C1 - Cap enforcement: whatever the tree, the cap and the order in which the
\* filesystem operations complete, counter.count never exceeds the cap and the
\* calls sharing the counter return no more paths than the cap in total.
C1_CapEnforced ==
    /\ counter <= maxFiles
    /\ Len(result["c1"]) + Len(result["c2"]) <= maxFiles

\* Both calls returned paths and the cap stopped a loop.
C1_Witness ==
    /\ counter = maxFiles
    /\ callState["c1"] = "resolved" /\ Len(result["c1"]) > 0
    /\ callState["c2"] = "resolved" /\ Len(result["c2"]) > 0
    /\ capWarnings > 0

\* A directory, not the root, at or under the uri of call c, that the matcher
\* ignores with a trailing slash.
PrunedFor(c, d) ==
    /\ d \in Universe /\ d # Root
    /\ Exists(d) /\ fsKind[d] = "dir"
    /\ IsPrefix(callUri[c], d)
    /\ << BelowRoot(d), "/" >> \in ignoreParser

\* C2 - Pruning without visiting: a call never lists a directory (other than the
\* root) that the matcher ignores with a trailing slash, issues no stat and no
\* readDirectory for anything beneath it, and returns nothing from it.
C2_PrunedNeverVisited ==
    \A c \in Calls : \A d \in Universe :
        PrunedFor(c, d) =>
            /\ <<"list", d>> \notin issued[c]
            /\ \A u \in Universe : Beneath(d, u) =>
                  /\ <<"stat", u>> \notin issued[c]
                  /\ <<"list", u>> \notin issued[c]
                  /\ u \notin Range(result[c])
                  /\ u \notin Gathered(stack[c])

\* A call reached an ignored directory that has children, and resolved.
C2_Witness ==
    \E c \in Calls : \E d \in Universe :
        /\ PrunedFor(c, d)
        /\ <<"stat", d>> \in issued[c]
        /\ \E u \in Universe : Beneath(d, u)
        /\ callState[c] = "resolved"
        /\ result[c] # <<>>

\* C3 - Soundness: every returned path is a file at or under the uri of the call,
\* the matcher does not ignore its root-relative path, and it ignores (with a
\* trailing slash) no directory from the uri down to the file, the root excepted.
C3_ResultSound ==
    \A c \in Calls : \A p \in Range(result[c]) :
        /\ Exists(p) /\ fsKind[p] = "file"
        /\ IsPrefix(callUri[c], p)
        /\ << BelowRoot(p), "" >> \notin ignoreParser
        /\ \A d \in Universe :
              (d # Root /\ IsPrefix(callUri[c], d) /\ Beneath(d, p))
                  => << BelowRoot(d), "/" >> \notin ignoreParser

\* A call resolved with some paths and left out a file that the matcher ignores.
C3_Witness ==
    \E c \in Calls : \E p \in Universe :
        /\ callState[c] = "resolved" /\ result[c] # <<>>
        /\ Exists(p) /\ fsKind[p] = "file" /\ IsPrefix(callUri[c], p)
        /\ <<"stat", p>> \in issued[c]
        /\ << BelowRoot(p), "" >> \in ignoreParser

\* C4 - collectFiles never raises: stated as it is claimed, no call is ever
\* rejected.  The code has no try around its awaits, so a failing stat or
\* readDirectory rejects the whole call.
C4_NeverRaises == \A c \in Calls : callState[c] # "rejected"

\* What a file contributes when nothing fails and nobody cancels: 0 above the
\* preview ceiling and for binary content, its token count otherwise.
OwnCount(p) ==
    IF Len(disk[p].content) > MaxPreviewBytes \/ ZeroByFullRead(disk[p].content)
    THEN 0
    ELSE Tokens(disk[p].content)

\* C5: countTokens never rejects; a task whose stat or read failed contributes 0,
\* a file none of whose operations failed contributes its own count whatever
\* happened to the other file, and the result is the sum of the contributions.
C5_FailureIsolated ==
    /\ countState # "rejected"
    /\ \A i \in TaskIds :
          /\ task[i].how = "failed" => task[i].contrib = 0
          /\ (/\ task[i].pc = "done"
              /\ task[i].how \notin {"none", "aborted"}
              /\ countPaths[i] \notin failedPaths)
                => task[i].contrib = OwnCount(countPaths[i])
    /\ countState = "done" => total = SumContrib(task, Len(countPaths))

\* The stat or the read of the first file failed, the second file was counted, and
\* the total is the count of the second file.
C5_Witness ==
    /\ countState = "done"
    /\ Len(countPaths) = 2
    /\ task[1].how = "failed"
    /\ task[2].how = "computed"
    /\ countPaths[2] \notin failedPaths
    /\ task[2].contrib = Tokens(OtherContent)
    /\ total = Tokens(OtherContent)
    /\ total > 0

\* C6 - Concurrency bound: the tasks in the running state never outnumber the
\* limiter's concurrency.
C6_ConcurrencyBound ==
    /\ Cardinality({t \in DOMAIN taskState : taskState[t] = "running"}) <= concurrency
    /\ running <= concurrency

\* Every slot is taken, a task waits, and an earlier task has failed.
C6_Witness ==
    /\ running = concurrency
    /\ queue # <<>>
    /\ \E t \in DOMAIN taskState : taskState[t] = "rejected"

\* C7 - No starvation: when every started task settles, every queued task starts
\* and every task's promise settles the way its own fn() did.
C7_NoStarvation ==
    /\ \A t \in Tasks : (taskState[t] = "queued") ~> (taskState[t] = "running")
    /\ \A t \in Tasks : (taskState[t] = "running")
                            ~> (taskState[t] \in {"resolved", "rejected"})
    /\ [](\A t \in Tasks :
            /\ taskState[t] = "resolved" => fnOutcome[t] = "ok"
            /\ taskState[t] = "rejected" => fnOutcome[t] = "err")

\* A task that waited behind a failing task has resolved.
C7_Witness ==
    \E t \in wasQueued : \E u \in DOMAIN taskState :
        /\ u < t
        /\ taskState[u] = "rejected"
        /\ taskState[t] = "resolved"

\* C8 - No deadlock between the recursion and fsLimit: when every filesystem
\* operation completes, every call that was started settles.
C8_TraversalTerminates ==
    \A c \in Calls : (callState[c] = "active") ~> Settled(c)

\* The recursion of c1 is three frames deep, deeper than the one slot of fsLimit,
\* and waits in the queue for the slot the other call holds.
C8_Witness ==
    /\ fsConcurrency = 1
    /\ Len(stack["c1"]) = 3
    /\ fsQueue = <<"c1">>
    /\ callState["c2"] = "active"

\* C9 - Cancellation keeps partial results: stated as it is claimed, a call in
\* flight when the token is signalled resolves, and with every path its frames
\* had gathered by then.
C9_CancelKeepsPartial ==
    \A c \in Calls :
        gatheredAtAbort[c].inFlight =>
            /\ callState[c] # "rejected"
            /\ callState[c] = "resolved" => gatheredAtAbort[c].paths \subseteq Range(result[c])

\* A value came from a cache only under metadata equal to the stat of the same call.
ServedOnlyOnMatch ==
    /\ \A i \in TaskIds :
          /\ task[i].how = "cache" =>
                /\ task[i].served.ok
                /\ task[i].served.mtime = task[i].stats.mtime
                /\ task[i].served.size = task[i].stats.size
          /\ task[i].bhit => task[i].bserved.mtime = task[i].bstats.mtime
          /\ task[i].miss => task[i].how # "cache"
    /\ bin.hit => bin.served.mtime = bin.stats.mtime

TaskLeaves(i, at) == task[i].pc = at /\ task'[i].pc # at

\* What the caches hold after a recomputation: isBinary, whose stat succeeded,
\* replaces its entry under the mtime of that stat; countTokens replaces its entry
\* under its stat when the read succeeded, and leaves tokenCache alone otherwise.
RecomputationStores ==
    /\ \A i \in TaskIds :
          /\ (TaskLeaves(i, "bread") /\ task[i].bstats.ok) =>
                /\ MapHas(isBinaryCache', countPaths[i])
                /\ MapGet(isBinaryCache', countPaths[i]).mtime = task[i].bstats.mtime
          /\ (TaskLeaves(i, "read") /\ task'[i].how = "computed") =>
                /\ MapHas(tokenCache', countPaths[i])
                /\ MapGet(tokenCache', countPaths[i]) =
                      [tokens |-> task'[i].contrib, mtime |-> task[i].stats.mtime,
                       size |-> task[i].stats.size]
          /\ (task[i].pc # "done" /\ task'[i].pc = "done" /\ task'[i].how # "computed") =>
                tokenCache' = tokenCache
    /\ (bin.pc = "read" /\ bin'.pc = "done" /\ bin.stats.ok) =>
          /\ MapHas(isBinaryCache', bin.path)
          /\ MapGet(isBinaryCache', bin.path).mtime = bin.stats.mtime

StatStep(i) ==
    /\ task[i].pc = "stat"
    /\ task'[i].pc # "stat"
    /\ task'[i].stats.ok
    /\ ~TooLarge(StatOf(countPaths[i]))

\* tokenCache holds an entry of the path of task i under the mtime and the size
\* the file has now.
EntryMatches(i) ==
    /\ MapHas(tokenCache, countPaths[i])
    /\ MapGet(tokenCache, countPaths[i]).mtime = StatOf(countPaths[i]).mtime
    /\ MapGet(tokenCache, countPaths[i]).size = StatOf(countPaths[i]).size

\* On a hit the task returns the cached count, which is the count of the content
\* the file has, having issued nothing but its stat, and tokenCache stays as it is.
HitReturnsCached(i) ==
    (StatStep(i) /\ EntryMatches(i)) =>
        /\ task'[i].pc = "done"
        /\ task'[i].how = "cache"
        /\ task'[i].contrib = MapGet(tokenCache, countPaths[i]).tokens
        /\ task'[i].contrib = Tokens(disk[countPaths[i]].content)
        /\ task'[i].ops = <<"stat">>
        /\ tokenCache' = tokenCache

\* With no entry under the metadata of the stat, the task (its token not signalled)
\* goes on to isBinary; when isBinary says text it goes on to readFile; and when
\* readFile succeeds it returns the count of the content it read and the entry of
\* the path is that count under the mtime and size of its stat.
MissRecomputes(i) ==
    /\ (StatStep(i) /\ ~EntryMatches(i) /\ ~tokAborted) =>
          /\ task'[i].pc = "bstat"
          /\ task'[i].ops = <<"stat", "isBinary">>
    /\ (task[i].pc \in {"bstat", "bread"} /\ task'[i].pc = "done") =>
          task'[i].how \in {"binary", "aborted"}
    /\ (task[i].pc = "read" /\ task'[i].pc = "done" /\ task'[i].how # "failed") =>
          /\ task'[i].how = "computed"
          /\ task'[i].contrib = Tokens(disk[countPaths[i]].content)
          /\ task'[i].ops[Len(task'[i].ops)] = "readFile"
          /\ MapHas(tokenCache', countPaths[i])
          /\ MapGet(tokenCache', countPaths[i]) =
                [tokens |-> Tokens(disk[countPaths[i]].content),
                 mtime |-> task[i].stats.mtime, size |-> task[i].stats.size]

C12_FifoEviction ==
    /\ Len(evCache) <= evCapacity
    /\ evEvicted # {} => Len(evCache) = evCapacity
    /\ \A i, j \in 1..Len(evCache) :
          i < j => evInsertedAt[evCache[i].key] < evInsertedAt[evCache[j].key]
    /\ \A k \in MapKeys(evCache) : evInsertedAt[k] > 0
    /\ \A gone \in EvictKeys \ MapKeys(evCache) : \A k \in MapKeys(evCache) :
          evInsertedAt[gone] < evInsertedAt[k]

\* A cache of capacity 2 was given the keys 1 and 2, key 1 was then overwritten,
\* and the insertion of key 3 removed key 1 and nothing else.
C12_Witness ==
    /\ evCapacity = 2
    /\ evClock = 4
    /\ evInsertedAt[1] = 1
    /\ evInsertedAt[2] = 2
    /\ evInsertedAt[3] = 4
    /\ 1 \in evTouched
    /\ evEvicted = {1}
    /\ MapKeys(evCache) = {2, 3}
    /\ evCache[1].key = 2
    /\ evCache[1].val = 2

\* The call of ignLog[i + 1] was made after the call of ignLog[i] had returned, and
\* no other call returned between them.
Successive(i) == i + 1 <= Len(ignLog) /\ ignLog[i + 1].start > ignLog[i].end

\* C13: of two successive getIgnoreParser calls that both found .gitignore, the
\* second returns the very matcher of the first when the mtime it stats equals
\* that of the first; when the mtime differs it returns a matcher that did not
\* exist before, built of the default patterns and the content the file has,
\* and the cache entry of the root is that matcher under the new mtime.
C13_MatcherCachedByMtime ==
    \A i \in 1..Len(ignLog) :
        (Successive(i) /\ ignLog[i].how # "default" /\ ignLog[i + 1].how # "default") =>
            LET A == ignLog[i]
                B == ignLog[i + 1]
            IN  IF B.mtime = A.mtime
                THEN B.how = "hit" /\ B.parser = A.parser
                ELSE /\ B.how = "built"
                     /\ \A j \in 1..i : ignLog[j].parser # B.parser
                     /\ parsers[B.parser] = BuildParser(B.content)
                     /\ i + 1 = Len(ignLog) =>
                           ignoreParserCache = <<[parser |-> B.parser, mtime |-> B.mtime]>>

\* The test of the repository: the first call builds a matcher, the second returns
\* the same one, .gitignore is rewritten with *.tmp, and the third call returns
\* another matcher, which ignores test.tmp.
C13_Witness ==
    /\ Len(ignLog) = 3
    /\ Successive(1)
    /\ Successive(2)
    /\ ignLog[1].how = "built"
    /\ ignLog[2].how = "hit"
    /\ ignLog[2].parser = ignLog[1].parser
    /\ ignLog[3].how = "built"
    /\ ignLog[3].parser # ignLog[1].parser
    /\ ignLog[3].mtime > ignLog[1].mtime
    /\ ~ParserIgnores(parsers[ignLog[1].parser], PathOf(<<"test.tmp">>, FALSE))
    /\ ParserIgnores(parsers[ignLog[3].parser], PathOf(<<"test.tmp">>, FALSE))

\* C14 - Missing ignore file, stated as it is claimed: while the root has no
\* .gitignore, a call returns a matcher of the default patterns only, and of two
\* successive calls the second returns the matcher instance of the first.
C14_MissingFileCached ==
    (~gitIgnore.exists /\ ignWrites = 0) =>
        /\ \A i \in 1..Len(ignLog) :
              /\ ignLog[i].how = "default"
              /\ parsers[ignLog[i].parser] = DefaultParser
        /\ \A i \in 1..Len(ignLog) :
              Successive(i) => ignLog[i + 1].parser = ignLog[i].parser

\* The paths of the VCS metadata directory given to ignores().
GitPaths ==
    { PathOf(<<".git">>, FALSE), PathOf(<<".git">>, TRUE),
      PathOf(<<".git", "config">>, FALSE), PathOf(<<".git", "objects">>, TRUE) }

\* C15, stated as it is claimed: every matcher getIgnoreParser returned ignores
\* ".git", ".git/" and the paths beneath ".git/".
C15_AlwaysIgnoresGit ==
    \A i \in 1..Len(ignLog) : \A path \in GitPaths :
        ParserIgnores(parsers[ignLog[i].parser], path)

\* The tasks that wait, and the step in which a running task completes.
QueuedTasks == {t \in Tasks : taskState[t] = "queued"}

SomeTaskCompletes ==
    \E t \in Tasks : taskState[t] = "running" /\ taskState'[t] \in {"resolved", "rejected"}

\* One step of the limiter as C16 has it.  A task submitted (tasks are submitted
\* in the order of their ids) starts in the same step when a slot is free, and
\* goes last on the queue otherwise.  A waiting task starts only in a step in
\* which a running task completes, it is the one submitted first of those that
\* wait, and no other starts with it; and a completion with tasks waiting
\* starts one.
StartOrderStep ==
    /\ \A t \in Tasks :
          (taskState[t] = "new" /\ taskState'[t] # "new") =>
              IF running < concurrency
              THEN taskState'[t] = "running" /\ queue' = queue
              ELSE taskState'[t] = "queued" /\ queue' = Append(queue, t)
    /\ \A u \in Tasks :
          (taskState[u] = "queued" /\ taskState'[u] = "running") =>
              /\ SomeTaskCompletes
              /\ \A v \in QueuedTasks : u <= v
              /\ \A v \in QueuedTasks \ {u} : taskState'[v] = "queued"
    /\ (SomeTaskCompletes /\ QueuedTasks # {}) =>
          \E u \in QueuedTasks : taskState'[u] = "running"

\* C16: a task submitted while a slot is free starts at once; tasks submitted
\* while every slot is busy start in the order of their submission, one at each
\* completion of a running task; and tasks wait only while every slot is busy, so
\* that a new task never starts ahead of a waiting one.
C16_StartOrder ==
    /\ [](queue # <<>> => running = concurrency)
    /\ [](Range(queue) = QueuedTasks)
    /\ [][StartOrderStep]_vars

\* Two tasks had to wait; a task has completed, the first of the two is running
\* and the second still waits.
C16_Witness ==
    \E u, v \in wasQueued :
        /\ u < v
        /\ taskState[u] = "running"
        /\ taskState[v] = "queued"
        /\ \E t \in Tasks : taskState[t] \in {"resolved", "rejected"}

\* The files at or under uri that collectFiles would return with no cap.
Collectable(uri) ==
    {u \in Universe :
        /\ Exists(u) /\ fsKind[u] = "file" /\ IsPrefix(uri, u)
        /\ ~FileIgnored(ignoreParser, BelowRoot(u))
        /\ \A d \in Universe :
              (IsPrefix(uri, d) /\ Beneath(d, u)) => ~PruneDirectory(ignoreParser, BelowRoot(d))}

HasZeroInPrefix(content) ==
    \E i \in DOMAIN content : i <= ScanBytes /\ content[i] = 0

\* isBinaryCache holds an entry of path p under the mtime the file has now.
BinaryEntryMatches(p) ==
    MapHas(isBinaryCache, p) /\ MapGet(isBinaryCache, p).mtime = StatOf(p).mtime

\* The isBinary call of the copy command, one step: after a stat that succeeded,
\* an entry under the same mtime is answered without a read, anything else goes
\* on to the read; a read that succeeded answers by the zero byte of the prefix.
ClassifiesStep ==
    /\ (bin.pc = "stat" /\ bin'.pc # "stat" /\ bin'.stats.ok) =>
          IF BinaryEntryMatches(bin.path)
          THEN /\ bin'.pc = "done"
               /\ bin'.verdict = MapGet(isBinaryCache, bin.path).isBinary
               /\ bin'.ops = <<"stat">>
               /\ bin'.bout = "none"
               /\ isBinaryCache' = isBinaryCache
          ELSE bin'.pc = "read"
    /\ (bin.pc = "read" /\ bin'.pc = "done" /\ bin'.bout = "ok") =>
          bin'.verdict = HasZeroInPrefix(disk[bin.path].content)

\* The same for the isBinary call inside task i of countTokens.
ClassifiesStepOfTask(i) ==
    /\ (task[i].pc = "bstat" /\ task'[i].pc # "bstat" /\ task'[i].bstats.ok) =>
          IF BinaryEntryMatches(countPaths[i])
          THEN /\ task'[i].bverdict =
                     IF MapGet(isBinaryCache, countPaths[i]).isBinary THEN "binary" ELSE "text"
               /\ "isBinary.read" \notin Range(task'[i].ops)
               /\ task'[i].bout = "none"
               /\ isBinaryCache' = isBinaryCache
          ELSE task'[i].pc = "bread"
    /\ (task[i].pc = "bread" /\ task'[i].pc # "bread" /\ task'[i].bout = "ok") =>
          task'[i].bverdict =
              IF HasZeroInPrefix(disk[countPaths[i]].content) THEN "binary" ELSE "text"

\* C18: with a stat that succeeded and a cache entry of the path under the same
\* mtime, isBinary returns the cached verdict and reads nothing; otherwise it
\* reads, and a read that succeeds returns true exactly when a zero byte is among
\* the first 512 bytes; the full read and the streaming read, whatever the size of
\* the chunks, decide alike on the same content.
C18_BinaryClassification ==
    /\ [](\A p \in DOMAIN disk : \A v \in ReadVariants :
             ZeroByte(disk[p].content, v) = HasZeroInPrefix(disk[p].content))
    /\ [][ClassifiesStep /\ \A i \in TaskIds : ClassifiesStepOfTask(i)]_vars

\* A task of countTokens read the file and found it binary; the copy command then
\* asked isBinary and was answered from the cache by the stat alone.
C18_Witness ==
    /\ bin.pc = "done"
    /\ bin.hit
    /\ bin.verdict
    /\ bin.ops = <<"stat">>
    /\ HasZeroInPrefix(disk[bin.path].content)
    /\ \E i \in TaskIds : task[i].bout = "ok" /\ task[i].bverdict = "binary"

\* One step of isBinary as C19 has it, for the call of the copy command: a stat
\* that fails leads to the read with no answer from the cache and no write; a
\* read that fails returns true, and the cache gets that verdict under the mtime
\* of the stat if the stat had succeeded and is left alone if it had not; a
\* read that succeeds after a failed stat leaves the cache alone as well.
FailSafeStep ==
    /\ (bin.pc = "stat" /\ bin'.pc # "stat" /\ ~bin'.stats.ok) =>
          /\ bin'.pc = "read"
          /\ ~bin'.hit
          /\ isBinaryCache' = isBinaryCache
    /\ (bin.pc = "read" /\ bin'.pc # "read") =>
          /\ bin'.pc = "done"
          /\ bin'.bout = "failed" => bin'.verdict
          /\ (bin.stats.ok /\ bin'.bout = "failed") =>
                /\ MapHas(isBinaryCache', bin.path)
                /\ MapGet(isBinaryCache', bin.path) =
                      [isBinary |-> TRUE, mtime |-> bin.stats.mtime]
          /\ ~bin.stats.ok => isBinaryCache' = isBinaryCache

\* The same for the isBinary call inside task i: the task is never sent to the
\* catch block of countTokens by isBinary.
FailSafeStepOfTask(i) ==
    /\ (task[i].pc = "bstat" /\ task'[i].pc # "bstat" /\ ~task'[i].bstats.ok) =>
          /\ task'[i].pc = "bread"
          /\ ~task'[i].bhit
          /\ isBinaryCache' = isBinaryCache
    /\ (task[i].pc = "bread" /\ task'[i].pc # "bread") =>
          /\ task'[i].how # "failed"
          /\ task'[i].bout = "failed" => task'[i].bverdict = "binary"
          /\ (task[i].bstats.ok /\ task'[i].bout = "failed") =>
                /\ MapHas(isBinaryCache', countPaths[i])
                /\ MapGet(isBinaryCache', countPaths[i]) =
                      [isBinary |-> TRUE, mtime |-> task[i].bstats.mtime]
          /\ ~task[i].bstats.ok => isBinaryCache' = isBinaryCache

\* C19: isBinary never raises, it always returns a verdict: a content read that
\* fails returns true, written to the cache exactly when the stat before it
\* succeeded; a stat that fails means no cache lookup and no cache write, and the
\* content check is made all the same.
C19_IsBinaryFailSafe ==
    /\ [](bin.pc \in {"idle", "stat", "read", "done"})
    /\ [][FailSafeStep /\ \A i \in TaskIds : FailSafeStepOfTask(i)]_vars

\* The copy command's call statted a text file and could not read it: it returned
\* true and the cache holds that verdict; and a task of countTokens whose stat
\* inside isBinary failed had the content read all the same.
C19_Witness ==
    /\ bin.pc = "done"
    /\ bin.stats.ok
    /\ bin.bout = "failed"
    /\ bin.verdict
    /\ ~HasZeroInPrefix(disk[bin.path].content)
    /\ MapHas(isBinaryCache, bin.path)
    /\ MapGet(isBinaryCache, bin.path).isBinary
    /\ \E i \in TaskIds : ~task[i].bstats.ok /\ task[i].bout = "ok"

\* The step on which the stat of task i returns a size over the ceiling: the
\* task is over with 0, having issued the stat alone, and no cache is written.
LargeFileStep(i) ==
    (/\ task[i].pc = "stat"
     /\ task'[i].pc # "stat"
     /\ task'[i].stats.ok
     /\ task'[i].stats.size > MaxPreviewBytes) =>
        /\ task'[i].pc = "done"
        /\ task'[i].contrib = 0
        /\ task'[i].ops = <<"stat">>
        /\ tokenCache' = tokenCache
        /\ isBinaryCache' = isBinaryCache

\* C20: a file whose stat size exceeds the preview ceiling contributes 0 to
\* countTokens, no isBinary and no readFile is issued for it, and no token cache
\* entry is written for it: no entry ever records a size over the ceiling.
C20_LargeFilesNeverTokenized ==
    /\ [](\A i \in TaskIds :
             (task[i].stats.ok /\ task[i].stats.size > MaxPreviewBytes) =>
                 /\ task[i].pc = "done"
                 /\ task[i].how = "large"
                 /\ task[i].contrib = 0
                 /\ task[i].ops = <<"stat">>)
    /\ [](\A p \in TokPaths :
             MapHas(tokenCache, p) => MapGet(tokenCache, p).size <= MaxPreviewBytes)
    /\ [][\A i \in TaskIds : LargeFileStep(i)]_vars

\* The file was tokenized and cached while small, then grew over the ceiling: the
\* next countTokens returned 0 after the stat alone and the old entry is as it was.
C20_Witness ==
    /\ countState = "done"
    /\ total = 0
    /\ \E i \in TaskIds :
          /\ task[i].how = "large"
          /\ task[i].stats.size > MaxPreviewBytes
          /\ task[i].ops = <<"stat">>
          /\ MapHas(tokenCache, countPaths[i])
          /\ MapGet(tokenCache, countPaths[i]).size < task[i].stats.size
          /\ MapGet(tokenCache, countPaths[i]).tokens > 0

\* C21: in one traversal (the collectFiles calls sharing one counter) the
\* diagnostic of the cap is written at most once, whatever the directories.
C21_SingleCapDiagnostic == capWarnings <= 1

\* C22: generateFileMap and generateFileMapMultiRoot return the empty string,
\* without the <file_map> wrapper, when the input holds no file: an empty list,
\* an empty map, and a map whose every entry has an empty list of files.
C22_EmptyInputEmptyString ==
    /\ (rdCall = "single" /\ rdFiles = <<>>) => rdOut = EmptyString
    /\ (rdCall = "multi" /\ \A i \in DOMAIN rdMap : rdMap[i].files = <<>>) =>
          rdOut = EmptyString

\* The parts of the leaves of a list of files, and of all the nodes above them.
LeafParts(files, workspaceRoot) ==
    { RelativeParts(workspaceRoot, files[i].comps) : i \in DOMAIN files }

NodeParts(files, workspaceRoot) ==
    UNION { { SubSeq(l, 1, n) : n \in 1..Len(l) } : l \in LeafParts(files, workspaceRoot) }

\* The leaf at parts is to be marked: no set was given, or a file inserted with
\* these parts is in the set.
ShouldMark(files, workspaceRoot, selectedSet, parts) ==
    \/ ~selectedSet.given
    \/ \E i \in DOMAIN files :
          /\ RelativeParts(workspaceRoot, files[i].comps) = parts
          /\ files[i] \in selectedSet.set

\* buildTree marks the leaves that are to be marked and no other node, and no
\* insertion takes away the mark of a node.
MarksRight(files, workspaceRoot, selectedSet) ==
    LET tree == BuildTree(files, workspaceRoot, selectedSet)
    IN  /\ \A i \in DOMAIN tree :
              tree[i].isSelected <=>
                 /\ tree[i].parts \in LeafParts(files, workspaceRoot)
                 /\ ShouldMark(files, workspaceRoot, selectedSet, tree[i].parts)
        /\ \A n \in DOMAIN files :
              LET before == BuildTree(SubSeq(files, 1, n - 1), workspaceRoot, selectedSet)
                  after == BuildTree(SubSeq(files, 1, n), workspaceRoot, selectedSet)
              IN  \A i \in DOMAIN before :
                     before[i].isSelected =>
                        after[NodeIndex(after, before[i].parts)].isSelected

\* The lines of the tree in a rendered string, and the parts of the node of line
\* i: its name below the node of the nearest line above that is one level up.
IsTreeLine(line) == line.connector # ""

TreeLines(out) == SelectSeq(out, IsTreeLine)

RECURSIVE PartsOfLine(_, _)
PartsOfLine(lines, i) ==
    IF lines[i].prefix = <<>>
    THEN <<lines[i].name>>
    ELSE LET above == { j \in 1..(i - 1) : Len(lines[j].prefix) = Len(lines[i].prefix) - 1 }
             parent == CHOOSE j \in above : \A h \in above : h <= j
         IN  Append(PartsOfLine(lines, parent), lines[i].name)

\* C23: for every list of files, a leaf is marked selected exactly when no
\* selected set is given or a file inserted with the leaf's path is in the set;
\* inserting the same leaf path again can turn the mark on and never off; and
\* the lines rendered with the " *" suffix are those of the marked leaves.
C23_SelectionMarking ==
    /\ rdCall = "single" =>
          /\ MarksRight(rdFiles, <<"w">>, rdSelected)
          /\ LET lines == TreeLines(rdOut)
             IN  \A i \in DOMAIN lines :
                    /\ lines[i].marker \in {"", " *"}
                    /\ lines[i].marker = " *" <=>
                          /\ PartsOfLine(lines, i) \in LeafParts(rdFiles, <<"w">>)
                          /\ ShouldMark(rdFiles, <<"w">>, rdSelected, PartsOfLine(lines, i))
    /\ rdCall = "multi" =>
          \A e \in DOMAIN rdMap :
             MarksRight(rdMap[e].files, rdMap[e].workspacePath, rdSelected)

\* The file a is listed three times, under the spelling that is selected between
\* two that are not, with a file that is not selected: a is rendered with the
\* mark and c without.
C23_Witness ==
    /\ rdCall = "single"
    /\ rdSelected = [given |-> TRUE, set |-> {FilePath(<<"w", "a">>, "plain")}]
    /\ rdFiles = << FilePath(<<"w", "a">>, "dot"), FilePath(<<"w", "a">>, "plain"),
                    FilePath(<<"w", "a">>, "dot") >>
    /\ TreeLines(rdOut) = << Line(<<>>, "+-- ", "a", " *") >>

\* parts is a directory of the list: some file is beneath it.
IsDirectoryOf(files, workspaceRoot, parts) ==
    \E l \in LeafParts(files, workspaceRoot) : Beneath(parts, l)

\* The lines of a tree are in order: every node of the list has one line; of two
\* children of one directory a directory comes before a file and, within a kind,
\* the smaller name first; and the line of a node is below the line of its parent
\* and above the line of the next sibling of its parent.
InRenderOrder(files, workspaceRoot, lines) ==
    LET P(i) == PartsOfLine(lines, i)
        Up(parts) == SubSeq(parts, 1, Len(parts) - 1)
        Dir(i) == IsDirectoryOf(files, workspaceRoot, P(i))
    IN  /\ { P(i) : i \in DOMAIN lines } = NodeParts(files, workspaceRoot)
        /\ Len(lines) = Cardinality(NodeParts(files, workspaceRoot))
        /\ \A i, j \in DOMAIN lines :
              (i < j /\ Up(P(i)) = Up(P(j))) =>
                 /\ Dir(i) \/ ~Dir(j)
                 /\ (Dir(i) <=> Dir(j)) => Rank(lines[i].name) < Rank(lines[j].name)
        /\ \A i, q \in DOMAIN lines :
              P(q) = Up(P(i)) =>
                 /\ q < i
                 /\ \A n \in DOMAIN lines :
                       (q < n /\ Up(P(n)) = Up(P(q))) => i < n

\* C24: in the rendered lines, the child directories of every directory come
\* before its child files, children of one kind are in name order, every node's
\* line comes after its parent's and before that of the parent's next sibling,
\* and the lines do not depend on the order of the list of files.
C24_RenderOrder ==
    rdCall = "single" =>
       /\ InRenderOrder(rdFiles, <<"w">>, TreeLines(rdOut))
       /\ \A perm \in Permutations(DOMAIN rdFiles) :
             generateFileMap([i \in DOMAIN rdFiles |-> rdFiles[perm[i]]], <<"w">>,
                             rdSelected) = rdOut

\* The list is a, b/c, b/a/a: the directory b comes before the file a, and in b
\* the directory a with its file before the file c.
C24_Witness ==
    /\ rdCall = "single"
    /\ ~rdSelected.given
    /\ rdFiles = << FilePath(<<"w", "a">>, "plain"), FilePath(<<"w", "b", "c">>, "plain"),
                    FilePath(<<"w", "b", "a", "a">>, "plain") >>
    /\ TreeLines(rdOut) =
          << Line(<<>>, "|-- ", "b", ""),
             Line(<<"|   ">>, "|-- ", "a", ""),
             Line(<<"|   ", "|   ">>, "+-- ", "a", " *"),
             Line(<<"|   ">>, "+-- ", "c", " *"),
             Line(<<>>, "+-- ", "a", " *") >>

\* C25: an invocation of refreshAndUpdate with sequence number s writes the
\* status bar only while refreshSeq is s: once a later invocation has started,
\* the earlier one writes nothing more and returns at its next sequence check,
\* however the awaited steps of the invocations interleave.
C25_SupersededDiscarded ==
    /\ \A i \in DOMAIN statusLog : statusLog[i].by = statusLog[i].seq
    /\ \A i, j \in DOMAIN statusLog : i < j => statusLog[i].by <= statusLog[j].by
    /\ \A r \in Invocations :
          /\ refresh[r].pc = "stale" => refresh[r].mySeq < refreshSeq
          /\ refresh[r].pc = "done" =>
                \E i \in DOMAIN statusLog :
                   statusLog[i].by = refresh[r].mySeq /\ ~statusLog[i].isCalculating

\* The first invocation wrote the file count and was at countTokens when the
\* second started; it returned at its check, and the second wrote the final status.
C25_Witness ==
    /\ Len(refresh) = 2
    /\ refresh[1].pc = "stale"
    /\ refresh[2].pc = "done"
    /\ Handed("countTokens", 1, 1) \in work
    /\ statusBar = [isCalculating |-> FALSE, by |-> 2]
    /\ Len(SelectSeq(statusLog, LAMBDA e : e.by = 1)) = 2

\* C26: a new invocation of refreshAndUpdate signals the token of the earlier
\* ones before it creates its own: at most one token is unsignalled at any
\* moment, the latest, and every call of an invocation (resolveSelectedFiles
\* and its collectFiles calls, countTokens, generateFileMapSection) is handed
\* the token this invocation created.
C26_EachRefreshCancelsPrevious ==
    /\ currentAbort = Len(controllers)
    /\ Cardinality({ i \in DOMAIN controllers : ~controllers[i].aborted }) <= 1
    /\ \A i \in DOMAIN controllers : i < Len(controllers) => controllers[i].aborted
    /\ \A w \in work : w.signal = refresh[w.by].own

\* Two invocations made their calls: the token of the first is signalled, that of
\* the second is not, and both handed countTokens their own.
C26_Witness ==
    /\ Len(controllers) = 2
    /\ controllers[1].aborted
    /\ ~controllers[2].aborted
    /\ Handed("countTokens", 1, 1) \in work
    /\ Handed("countTokens", 2, 2) \in work
    /\ Handed("generateFileMapSection", 2, 2) \in work

\* C28: when no newer refresh starts and every awaited call settles, the status
\* bar does not stay in the "Calculating..." state: a status with isCalculating
\* false is written in the end.
C28_RefreshLiveness == statusBar.isCalculating ~> ~statusBar.isCalculating

\* A step taken with the token signalled: no stat and no readDirectory is handed
\* to fsLimit, no call in flight makes a recursive call, and a call that is
\* entered returns the empty array at once.
CancelledStep ==
    aborted =>
       /\ issued' = issued
       /\ fsRunning' <= fsRunning
       /\ Len(fsQueue') <= Len(fsQueue)
       /\ \A c \in Calls :
             /\ callState[c] = "active" =>
                   /\ entered'[c] = entered[c]
                   /\ Len(stack'[c]) <= Len(stack[c])
             /\ (callState[c] = "idle" /\ callState'[c] # "idle") =>
                   /\ callState'[c] = "resolved"
                   /\ result'[c] = <<>>
                   /\ stack'[c] = <<>>

\* C27: a collectFiles call entered with the token already signalled returns
\* the empty array without any filesystem call, and once the token is signalled
\* no collectFiles invocation submits a stat or a readDirectory or starts the
\* recursive call of a child not yet started.
C27_CancellationCheckpoints == [][CancelledStep]_vars

\* The token was signalled while the first call was in flight below a directory
\* it had listed: the call resolved and a child of that directory was never
\* visited, with room under the cap; the second call was entered afterwards and
\* resolved with nothing.
C27_Witness ==
    /\ aborted
    /\ gatheredAtAbort["c1"].inFlight
    /\ ~gatheredAtAbort["c2"].inFlight
    /\ callState["c1"] = "resolved"
    /\ callState["c2"] = "resolved"
    /\ entered["c2"] = 1
    /\ issued["c2"] = {}
    /\ counter < maxFiles
    /\ \E u \in Universe :
          /\ Exists(u)
          /\ u # Root
          /\ <<"list", Pop(u)>> \in issued["c1"]
          /\ <<"stat", u>> \notin issued["c1"]

\* resolveSelectedFiles, lines 239-246: what it returns once its collectFiles
\* calls have settled, a call that failed counting for nothing (233-236).  With
\* one folder per call a path is the pair of its folder and the path in it.
ResolvedOfRoots == UNION { { <<c, u>> : u \in Range(result[c]) } : c \in Calls }

\* The same for the two selections of one folder: new Set(files).
ResolvedOfSelections == UNION { Range(result[c]) : c \in Calls }

\* C29: one resolveSelectedFiles call has one counter for all its descents and
\* all its roots, so it never returns more than MAX_COLLECTED_FILES paths,
\* whatever the number of roots.
C29_OneCounterPerTraversal == Cardinality(ResolvedOfRoots) <= maxFiles

\* C30: in resolveSelectedFiles with no cancellation and no failing operation,
\* when the distinct files under the selections of a root that the matcher does
\* not ignore are at most MAX_COLLECTED_FILES, all of them are returned, also
\* for a selected directory together with a selected path inside it.
C30_CapDropsOnlyWhenNeeded ==
    LET wanted == UNION { Collectable(callUri[c]) : c \in Calls }
    IN  (/\ \A c \in Calls : callState[c] = "resolved"
         /\ ~aborted
         /\ Cardinality(wanted) <= maxFiles) =>
            wanted \subseteq ResolvedOfSelections

\* The matchers getIgnoreParser built from the file, and those it returned
\* from the file or from the cache.
BuiltMatchers == { i \in 1..Len(ignLog) : ignLog[i].how = "built" }

ReturnedMatchers == { ignLog[i].parser : i \in { j \in 1..Len(ignLog) : ignLog[j].how # "default" } }

\* C31: while .gitignore is there and its mtime never changes, the calls of
\* getIgnoreParser for the root, concurrent ones included, read the file and
\* build a matcher at most once, and all return the same matcher instance.
C31_BuiltOncePerMtime ==
    (gitIgnore.exists /\ ignWrites = 0) =>
        /\ Cardinality(BuiltMatchers) <= 1
        /\ Cardinality(ReturnedMatchers) <= 1

\* The token cache entry e of path p agrees with the history of the file.
EntryMatchesHistory(p, e) ==
    /\ e.mtime \in DOMAIN contentAt[p]
    /\ e.size = Len(contentAt[p][e.mtime])
    /\ e.tokens = Tokens(contentAt[p][e.mtime])

\* C32: in every reachable state, with countTokens calls and writes of the file
\* interleaved, every tokenCache entry (tokens, mtime, size) holds the token
\* count of the content the file had while its metadata was that mtime and size.
C32_EntriesMatchMetadata ==
    \A p \in MapKeys(tokenCache) : EntryMatchesHistory(p, MapGet(tokenCache, p))

\* A step in which isBinary answers from its cache, for the call of the copy
\* command and for the call inside task i of countTokens: the verdict it
\* returns is the classification of the content the file has at that moment.
CachedVerdictStep ==
    (bin.pc = "stat" /\ bin'.pc = "done" /\ bin'.hit) =>
        bin'.verdict = HasZeroInPrefix(disk[bin.path].content)

CachedVerdictStepOfTask(i) ==
    (task[i].pc = "bstat" /\ task'[i].pc # "bstat" /\ task'[i].bhit) =>
        task'[i].bverdict =
            IF HasZeroInPrefix(disk[countPaths[i]].content) THEN "binary" ELSE "text"

\* C33: whenever isBinary returns a cached verdict for a path, the verdict is
\* the zero-byte classification of the first 512 bytes of the content the file
\* has now, also after an earlier read of the file failed while its mtime
\* stayed the same.
C33_CachedVerdictsCorrect ==
    [][CachedVerdictStep /\ \A i \in TaskIds : CachedVerdictStepOfTask(i)]_vars

\* The step wrote the tokenCache entry of path p, or the isBinaryCache entry.
TokenEntryWritten(p) ==
    /\ MapHas(tokenCache', p)
    /\ MapHas(tokenCache, p) => MapGet(tokenCache', p) # MapGet(tokenCache, p)

BinaryEntryWritten(p) ==
    /\ MapHas(isBinaryCache', p)
    /\ MapHas(isBinaryCache, p) => MapGet(isBinaryCache', p) # MapGet(isBinaryCache, p)

\* One step of countTokens as C34 has it.  A task that starts with the token
\* signalled is over at once with 0 and has issued nothing; readFile is issued
\* only with the token not signalled; and an entry of a path is written to
\* tokenCache only by a task of that path whose readFile completes, to
\* isBinaryCache only by one whose content check completes.
CancelledCountStep ==
    /\ \A i \in TaskIds :
          /\ (tokAborted /\ task[i].pc \in {"idle", "queued"}
                         /\ task'[i].pc \notin {"idle", "queued"}) =>
                /\ task'[i].pc = "done"
                /\ task'[i].how = "aborted"
                /\ task'[i].contrib = 0
                /\ task'[i].ops = <<>>
          /\ (task[i].pc # "read" /\ task'[i].pc = "read") => ~tokAborted
    /\ \A p \in TokPaths :
          /\ TokenEntryWritten(p) =>
                \E i \in TaskIds : countPaths[i] = p /\ task[i].pc = "read"
          /\ BinaryEntryWritten(p) =>
                \E i \in TaskIds : countPaths[i] = p /\ task[i].pc = "bread"

\* C34: a file whose task starts after the token was signalled contributes 0,
\* no stat and no read is issued for it and no cache entry is written for it;
\* with the token signalled before the content read, the read is not issued
\* and no tokenCache entry is written for the file.
C34_CancelledCountingLeavesNoTrace ==
    /\ [](\A i \in TaskIds : task[i].how = "aborted" => task[i].contrib = 0)
    /\ [](\A i \in TaskIds :
             (task[i].how = "aborted" /\ "stat" \notin Range(task[i].ops)) =>
                 task[i].ops = <<>>)
    /\ [][CancelledCountStep]_vars

\* The token was signalled while the first file was being classified and the
\* second waited for a slot: the first returned 0 before its content read, the
\* second started and returned 0 having issued nothing, the total is 0 and
\* tokenCache holds no entry.
C34_Witness ==
    /\ tokAborted
    /\ countState = "done"
    /\ total = 0
    /\ rounds = 1
    /\ task[1].how = "aborted"
    /\ task[1].bverdict = "text"
    /\ task[1].ops = <<"stat", "isBinary", "isBinary.read">>
    /\ task[2].how = "aborted"
    /\ task[2].ops = <<>>
    /\ tokenCache = <<>>
    /\ ~MapHas(isBinaryCache, countPaths[2])

\* A filesystem operation of call c completes in this step: the call, which has
\* one stat or readDirectory submitted or queued at a time, moves on.
OperationCompletes(c) ==
    /\ callState[c] = "active"
    /\ stack'[c] # stack[c] \/ callState'[c] # "active"

RECURSIVE PartsInMap(_, _)
PartsInMap(out, i) ==
    IF out[i].prefix = <<>>
    THEN <<out[i].name>>
    ELSE LET above == { j \in 1..(i - 1) :
                          /\ IsTreeLine(out[j])
                          /\ Len(out[j].prefix) = Len(out[i].prefix) - 1 }
             parent == CHOOSE j \in above : \A h \in above : h <= j
         IN  Append(PartsInMap(out, parent), out[i].name)

FolderInMap(out, i) ==
    LET above == { j \in 1..(i - 1) : ~IsTreeLine(out[j]) }
    IN  out[CHOOSE j \in above : \A h \in above : h <= j].name

Listing(out) ==
    { [folder |-> FolderInMap(out, i), parts |-> PartsInMap(out, i),
       marked |-> out[i].marker = " *"] : i \in { j \in DOMAIN out : IsTreeLine(out[j]) } }

\* The file is listed in the map, under its folder.
ListedIn(out, file) ==
    \E l \in Listing(out) : l.folder = file.comps[1] /\ l.parts = Tail(file.comps)

\* C36: of the same folders, resolved files, include-all setting and
\* filesystem, the file map the copy command builds lists the same files with
\* the same marks as the one generateFileMapSection builds for the estimate,
\* and in include-all mode every selected file is listed in both.
C36_EstimateMatchesCopy ==
    (fmCopy.built /\ fmSection.called) =>
        /\ Listing(fmCopy.fileMap) = Listing(fmSection.fileMapSection)
        /\ fmIncludeAll =>
              \A i \in DOMAIN fmResolved :
                 /\ ListedIn(fmCopy.fileMap, fmResolved[i])
                 /\ ListedIn(fmSection.fileMapSection, fmResolved[i])

\* C37: a settings change that alters what the accounting covers is followed
\* by a call of refreshAndUpdate, under every await completing and the timer
\* of debounce running out.
C37_SettingsReachAccounting == unaccounted ~> ~unaccounted

\* The toggle that switches the setting off returns in this step.
SwitchOffReturns ==
    /\ toggle.pc # "idle"
    /\ toggle'.pc = "idle"
    /\ toggle.wasEnabled
    /\ ~showIgnoredFiles

RemovalBeforeEvents(log) ==
    \A i, j \in 1..Len(log) :
        (log[i] = "removed" /\ log[j] \in {"treeEvent", "changedCallback"}) => i < j

\* C39: when show-ignored-files is switched off, the ignored paths are removed
\* from checkedPaths before the tree-change event and the changed callback
\* fire, and when the toggle returns checkedPaths holds no ignored path.
C39_SwitchOffCleansSelection ==
    [][SwitchOffReturns =>
          /\ RemovalBeforeEvents(toggleLog')
          /\ \A p \in Range(checkedPaths') : ~IsIgnored(FolderMatcher, Rel(Root, p))]_vars

\* The first half of C39 alone.
SwitchOffRemovesFirst == [][SwitchOffReturns => RemovalBeforeEvents(toggleLog')]_vars

\* The toggle switched the setting off, removed paths and returned.
SwitchOffRemovedPaths ==
    toggle.pc = "idle" /\ ~showIgnoredFiles /\ "removed" \in Range(toggleLog)

\* Every event was delivered and no getChildren call is awaiting.
TreeQuiet ==
    /\ watcherEvents = {}
    /\ \A i \in TreeCallIds : treeCall[i].pc = "idle"

\* What a directory lists now, under the matcher and the setting of now.
CurrentChildren(element) ==
    {f \in treeFiles :
        /\ Dirname(f) = element
        /\ (showIgnored \/ <<Rel(TreeRoot, f), "">> \notin TreeMatcher)}

\* C38: once every watcher event is delivered and no getChildren call is in
\* flight, every entry of childrenCache is the current listing of its
\* directory, filtered by the current ignore rules and show-ignored setting.
C38_ChildrenCacheCoherent ==
    TreeQuiet => \A element \in DOMAIN childrenCache :
                    childrenCache[element] = CurrentChildren(element)

\* The same for the entries whose names are not among ignoredDirs, in the
\* directories outside them: the events of these are not ignored.
WatchedEntriesCoherent ==
    TreeQuiet => \A element \in DOMAIN childrenCache :
                    ~shouldIgnoreWatcherEvent(element) =>
                       {f \in childrenCache[element] : ~shouldIgnoreWatcherEvent(f)}
                       = {f \in CurrentChildren(element) : ~shouldIgnoreWatcherEvent(f)}

\* An affected entry is gone.
NotCached(cache, key) == key \notin DOMAIN cache

\* Some segment of the path is one of the nine names.
HasIgnoredSegment(uri) ==
    \E i \in 1..Len(uri) :
        uri[i] \in {".git", "node_modules", ".vscode", "dist", "build", "out", "target",
                    ".next", ".nuxt"}

\* The watcher delivers the event in this step.
Delivered(event) == event \in watcherEvents /\ event \notin watcherEvents'

\* C40: an event whose path has one of the nine names among its segments
\* leaves kindCache and childrenCache unchanged and schedules no refresh;
\* every other event removes the cache entries of its path and of its parent
\* directory (of a change: the kind of the path and the children of the
\* parent) and schedules a refresh.
C40_WatcherFiltering ==
    [][\A event \in watcherEvents :
          Delivered(event) =>
             IF HasIgnoredSegment(event.uri)
             THEN UNCHANGED <<kindCache, childrenCache, refreshTimer>>
             ELSE /\ NotCached(kindCache', event.uri)
                  /\ NotCached(childrenCache', Dirname(event.uri))
                  /\ event.type # "change" =>
                        /\ NotCached(kindCache', Dirname(event.uri))
                        /\ NotCached(childrenCache', event.uri)
                  /\ refreshTimer']_vars

\* An ignored event was delivered while both caches held entries, and another
\* event has scheduled a refresh and emptied the children of its directory.
C40_Witness ==
    /\ eventsIgnored
    /\ refreshTimer
    /\ watcherEvents = {}
    /\ <<"w", "dist">> \in DOMAIN childrenCache
    /\ <<"w", "src">> \notin DOMAIN childrenCache
    /\ DOMAIN kindCache # {}

====
